---- MODULE Spec2Model ----
(***************************************************************************)
(* DanVentures: the tick bus (core/stream.py), the feed lifecycle and the  *)
(* control routes (web/app.py) and the per-symbol strategy engine          *)
(* (strategies/orderflow_liquidity_trap.py) as one state machine.          *)
(*                                                                         *)
(* Threads: the feed thread (KiteTicker callbacks -> TickBus.publish ->    *)
(* handlers -> on_tick) and the control thread (Flask routes).             *)
(***************************************************************************)
EXTENDS Integers, Sequences, FiniteSets, TLC

\* Python's None where the other values are strings
None == "None"

\* an optional value of another type: Nil is None, Some(x) is x
Nil == <<>>
Some(x) == <<x>>
Val(o) == o[1]

\* ------------------------------------------------------------------ bounds
\* number of publish calls in a run of the bus alone or of the feed lifecycle
MaxBatches == 2
\* number of distinct callables handed to TickBus.subscribe in a bus-only run
MaxFns == 2
\* number of tick batches the stream delivers in a run with engines
MaxTicks == 5
\* number of POST /feed/start requests that build engines in a run
MaxStarts == 2
\* ticks of a rising market
MaxTrendTicks == 6
\* calls of report_diag in a run of report_diag alone
MaxReports == 3

\* ------------------------------------------------------------------- state
VARIABLES
    _subs,      \* TickBus._subs: list of subscribed callables
    _lock,      \* TickBus._lock: "free", or the thread holding it
    pub,        \* the feed thread inside TickBus.publish: pc, ticks, subs (local copy), i
    subPending, \* the control thread inside TickBus.subscribe: Nil or Some(callable)
    nfn,        \* callables created so far for subscribe (bus-only runs)
    \* history of the bus, written by the actions, read only by the properties
    subLog,     \* callables in the order their subscribe completed
    subAt,      \* subAt[k]: publish calls begun when subLog[k] was subscribed, and
                \* whether one was running its handlers then
    published,  \* published[b]: the tick list handed to the b-th publish call
    callReg,    \* callReg[b]: Len(subLog) when the b-th publish call took the lock
    recv,       \* recv[b]: the calls fn(ticks) made by the b-th publish, in order
    raises,     \* set of <<b, k>>: the k-th call of the b-th publish raised
    \* web/app.py module state
    _stream,           \* Nil, or Some(number of the running Stream)
    _strategies,       \* list of engines (indices into `engines`)
    _config_overrides, \* the persisted override map
    STRAT_DIAG,        \* symbol -> deque(maxlen=50) of snapshots
    engines,           \* every OrderFlowLiquidityTrap built so far, in build order
    \* the world around the program
    ws,                \* the Streams whose websocket is open
    nstart,            \* feed_start calls that went past their checks
    clock,             \* seconds since midnight
    px,                \* instrument token -> last price the exchange sent
    calls,             \* the calls that reached the gateway, in order
    inflight,          \* Nil, or Some(the on_tick call the feed thread is inside)
    \* report_diag
    DIAG_LOCK,         \* "free", or the thread holding it
    reporting,         \* thread -> where it is inside report_diag, and its locals
    recorded,          \* history: symbol -> the snapshots recorded for it, in the order
                       \* the calls took DIAG_LOCK
    \* core/stream.py Stream
    stream             \* Nil, or Some(the Stream object: its fields, the state of its
                       \* KiteTicker, and what its last method issued and logged)

busVars == <<_subs, _lock, pub, subPending, nfn>>
busHist == <<subLog, subAt, published, callReg, recv, raises>>
appVars == <<_stream, _strategies, _config_overrides, STRAT_DIAG, engines>>
envVars == <<ws, nstart, clock, px, calls>>

diagVars == <<DIAG_LOCK, reporting>>

vars == <<busVars, busHist, appVars, envVars, inflight, diagVars, recorded, stream>>

\* --------------------------------------------------------------- TickBus
\* a callable subscribed on the bus
Fn(k) == [kind |-> "fn", id |-> k]

\* tick lists published in a bus-only run
BusBatches == { <<[instrument_token |-> 1, last_price |-> 10000]>>,
                <<[instrument_token |-> 1, last_price |-> 10001],
                  [instrument_token |-> 2, last_price |-> 500]>> }

\* what a subscribed callable may do when called: return, raise, or call
\* subscribe itself before returning
FnOutcomes == {"return", "raise", "subscribe"}

PubIdle == [pc |-> "idle", ticks |-> <<>>, subs |-> <<>>, i |-> 1]

\* TickBus.__init__
BusInit ==
    /\ _subs = <<>>
    /\ _lock = "free"
    /\ pub = PubIdle
    /\ subPending = Nil
    /\ nfn = 0
    /\ subLog = <<>>
    /\ subAt = <<>>
    /\ published = <<>>
    /\ callReg = <<>>
    /\ recv = <<>>
    /\ raises = {}

\* subscribe: `with self._lock:` entered by the control thread
subscribe_acquire ==
    /\ subPending = Nil
    /\ _lock = "free"
    /\ nfn < MaxFns
    /\ _lock' = "control"
    /\ subPending' = Some(Fn(nfn + 1))
    /\ nfn' = nfn + 1
    /\ UNCHANGED <<stream, inflight, diagVars, recorded, _subs, pub, busHist, appVars, envVars>>

\* subscribe: `self._subs.append(fn)` and the lock released
subscribe_append ==
    /\ subPending # Nil
    /\ _lock = "control"
    /\ _subs' = Append(_subs, Val(subPending))
    /\ _lock' = "free"
    /\ subPending' = Nil
    /\ subLog' = Append(subLog, Val(subPending))
    /\ subAt' = Append(subAt, [n |-> Len(published), during |-> pub.pc = "loop"])
    /\ UNCHANGED <<stream, inflight, diagVars, recorded, pub, nfn, published, callReg, recv, raises, appVars, envVars>>

\* publish: `with self._lock:` entered by the feed thread
publish_acquire(ticks) ==
    /\ pub.pc = "idle"
    /\ _lock = "free"
    /\ Len(published) < MaxBatches
    /\ _lock' = "feed"
    /\ pub' = [pc |-> "locked", ticks |-> ticks, subs |-> <<>>, i |-> 1]
    /\ published' = Append(published, ticks)
    /\ callReg' = Append(callReg, Len(subLog))
    /\ recv' = Append(recv, <<>>)
    /\ UNCHANGED <<stream, inflight, diagVars, recorded, _subs, subPending, nfn, subLog, subAt, raises, appVars, envVars>>

\* the lock after `subs = list(self._subs)`: the with block ends before the loop
publish_lock_after_copy == "free"

\* publish: `subs = list(self._subs)` and the with block left
publish_copy ==
    /\ pub.pc = "locked"
    /\ pub' = [pub EXCEPT !.pc = "loop", !.subs = _subs]
    /\ _lock' = publish_lock_after_copy
    /\ UNCHANGED <<stream, inflight, diagVars, recorded, _subs, subPending, nfn, busHist, appVars, envVars>>

\* mutant: the loop walks self._subs itself
publish_iterates_live(copy, live) == live

\* the list `for fn in subs` walks: the local copy, not self._subs
publish_iterates(copy, live) == copy

\* mutant: no try/except around fn(ticks), the exception ends the loop
publish_after_raise_abort(i, n) == n + 1

\* the loop index after fn raised: `except Exception` logs, the loop goes on
publish_after_raise(i, n) == i + 1

\* publish: one turn of `for fn in subs: try: fn(ticks)` for a callable of a
\* bus-only run; the callable returns, raises or subscribes another callable
publish_call_fn ==
    /\ pub.pc = "loop"
    /\ LET seq == publish_iterates(pub.subs, _subs)
           b   == Len(published)
       IN /\ pub.i <= Len(seq)
          /\ seq[pub.i].kind = "fn"
          /\ \E out \in FnOutcomes :
               /\ recv' = [recv EXCEPT ![b] = Append(@, [fn |-> seq[pub.i], ticks |-> pub.ticks])]
               /\ IF out = "raise"
                    THEN /\ raises' = raises \cup {<<b, Len(recv[b]) + 1>>}
                         /\ pub' = [pub EXCEPT !.i = publish_after_raise(pub.i, Len(seq))]
                         /\ UNCHANGED <<_subs, _lock, subPending, nfn, subLog, subAt>>
                    ELSE /\ raises' = raises
                         /\ pub' = [pub EXCEPT !.i = pub.i + 1]
                         /\ IF out = "subscribe"
                              THEN \* subscribe() called on the feed thread: needs the lock
                                   /\ _lock = "free"
                                   /\ nfn < MaxFns
                                   /\ _subs' = Append(_subs, Fn(nfn + 1))
                                   /\ nfn' = nfn + 1
                                   /\ subLog' = Append(subLog, Fn(nfn + 1))
                                   /\ subAt' = Append(subAt, [n |-> Len(published), during |-> TRUE])
                                   /\ UNCHANGED <<_lock, subPending>>
                              ELSE UNCHANGED <<_subs, _lock, subPending, nfn, subLog, subAt>>
          /\ UNCHANGED <<stream, inflight, diagVars, recorded, published, callReg, appVars, envVars>>

\* publish: the loop is exhausted, publish returns
publish_return ==
    /\ pub.pc = "loop"
    /\ pub.i > Len(publish_iterates(pub.subs, _subs))
    /\ pub' = [pub EXCEPT !.pc = "idle"]
    /\ UNCHANGED <<stream, inflight, diagVars, recorded, _subs, _lock, subPending, nfn, busHist, appVars, envVars>>

\* ------------------------------------------------------------- numbers
\* Prices are integers in units of 0.01; every other float of the program
\* (ratios, thresholds, VWAP) is an exact fraction <<n, d>> with d > 0.
RLt(a, b) == a[1] * b[2] < b[1] * a[2]
RLe(a, b) == a[1] * b[2] <= b[1] * a[2]
RAdd(a, b) == <<a[1] * b[2] + b[1] * a[2], a[2] * b[2]>>
Abs(x) == IF x < 0 THEN -x ELSE x
Max(a, b) == IF a >= b THEN a ELSE b
Min(a, b) == IF a <= b THEN a ELSE b

RECURSIVE Sum(_)
Sum(seq) == IF seq = <<>> THEN 0 ELSE Head(seq) + Sum(Tail(seq))

RECURSIVE RSum(_)
RSum(seq) == IF seq = <<>> THEN <<0, 1>> ELSE RAdd(Head(seq), RSum(Tail(seq)))

SeqMax(seq) == CHOOSE x \in {seq[i] : i \in 1..Len(seq)} : \A j \in 1..Len(seq) : seq[j] <= x
SeqMin(seq) == CHOOSE x \in {seq[i] : i \in 1..Len(seq)} : \A j \in 1..Len(seq) : seq[j] >= x

\* list(seq)[-k:]
LastK(seq, k) == IF k <= 0 THEN seq
                 ELSE SubSeq(seq, Max(1, Len(seq) - k + 1), Len(seq))

\* collections.deque(maxlen=n).append(x): the oldest element leaves a full deque
\* mutant: a full deque turns the new element away
deque_append_keeps_oldest(dq, x, maxlen) ==
    IF Len(dq) >= maxlen THEN dq ELSE Append(dq, x)

deque_append(dq, x, maxlen) ==
    IF maxlen = 0 THEN <<>>
    ELSE IF Len(dq) >= maxlen THEN Append(Tail(dq), x)
    ELSE Append(dq, x)

\* dict.update: the keys of `other` win
dict_update(d, other) ==
    [k \in DOMAIN d \cup DOMAIN other |-> IF k \in DOMAIN other THEN other[k] ELSE d[k]]

\* --------------------------------------------------------------- config
\* strategies/oflt_config.py CONFIG; "HH:MM" strings are <<hour, minute>>
CONFIG == [
    momentum_window |-> 20,
    delta_window |-> 12,
    imbalance_window |-> 8,
    depth_levels |-> 3,
    imbalance_threshold_long |-> <<60, 100>>,
    imbalance_threshold_short |-> <<-60, 100>>,
    depth_ratio_min_long |-> <<150, 100>>,
    depth_ratio_max_short |-> <<100, 150>>,
    delta_trend_ticks |-> 6,
    require_hh_hl_for_long |-> TRUE,
    require_ll_lh_for_short |-> TRUE,
    use_vwap_filter |-> TRUE,
    vwap_slope_window |-> 30,
    absorption_window |-> 15,
    absorption_min_traded_qty |-> 2000,
    absorption_max_price_range_bps |-> 4,
    skip_first_minutes |-> 5,
    lunch_skip_start |-> <<13, 15>>,
    lunch_skip_end |-> <<13, 30>>,
    use_best_windows |-> TRUE,
    best_windows |-> << << <<9, 20>>, <<13, 15>> >>, << <<13, 30>>, <<14, 45>> >> >>,
    max_spread_pct |-> <<5, 10000>>,
    max_tick_jump_bps |-> 10,
    dry_run |-> TRUE,
    qty |-> 1,
    exchange |-> "NSE",
    stoploss_pct |-> <<1, 1000>>,
    cooldown_seconds |-> 60,
    max_trades_per_session |-> 3,
    time_stop_seconds |-> 180,
    log_signals |-> TRUE,
    log_rejections |-> TRUE,
    target_pct |-> <<1, 1000>> ]

\* web/app.py _STRUCTURAL_KEYS
_STRUCTURAL_KEYS == {"momentum_window", "delta_window", "imbalance_window",
                     "depth_levels", "vwap_slope_window", "absorption_window"}

\* web/app.py _effective_config
_effective_config(ov) == dict_update(CONFIG, ov)

\* ------------------------------------------------------------ the engine
\* OrderFlowLiquidityTrap.__init__(symbol, context, overrides)
OrderFlowLiquidityTrap(symbol, ov) ==
    LET cfg == dict_update(CONFIG, ov) IN
    [ symbol |-> symbol,
      cfg |-> cfg,
      window_mom |-> cfg.momentum_window,
      window_delta |-> cfg.delta_window,
      window_imb |-> cfg.imbalance_window,
      depth_levels |-> cfg.depth_levels,
      prices |-> <<>>,
      delta_raw |-> <<>>,
      imbalance_raw |-> <<>>,
      abs_maxlen |-> cfg.absorption_window,
      abs_range_prices |-> <<>>,
      abs_qty |-> <<>>,
      cum_pv |-> 0,
      cum_v |-> 0,
      vwap_maxlen |-> cfg.vwap_slope_window,
      vwap_history |-> <<>>,
      position |-> None,
      entry_price |-> Nil,
      parent_order_id |-> None,
      last_entry_ts |-> Nil,
      trades_taken |-> 0 ]

\* _best_depth: best bid, best ask (0 when the side is empty: both are falsy)
_best_bid(depth) == IF depth.buy # <<>> THEN depth.buy[1].price ELSE 0
_best_ask(depth) == IF depth.sell # <<>> THEN depth.sell[1].price ELSE 0

\* _sum_qty(levels, n)
_sum_qty(levels, n) == Sum([i \in 1..Min(n, Len(levels)) |-> levels[i].quantity])

\* _is_hh_hl / _is_ll_lh over the last 4 prices
_is_hh_hl(prices) ==
    IF Len(prices) < 4 THEN FALSE
    ELSE LET p == LastK(prices, 4) IN
         p[2] > p[1] /\ p[3] > p[2] /\ p[4] > p[3] /\ Min(p[2], Min(p[3], p[4])) > p[1]

_is_ll_lh(prices) ==
    IF Len(prices) < 4 THEN FALSE
    ELSE LET p == LastK(prices, 4) IN
         p[2] < p[1] /\ p[3] < p[2] /\ p[4] < p[3] /\ Max(p[2], Max(p[3], p[4])) < p[1]

\* _is_strictly_increasing / _is_strictly_decreasing over the last k values
_is_strictly_increasing(seq, k) ==
    IF Len(seq) < k THEN FALSE
    ELSE LET t == LastK(seq, k) IN \A i \in 1..(Len(t) - 1) : t[i] < t[i + 1]

_is_strictly_decreasing(seq, k) ==
    IF Len(seq) < k THEN FALSE
    ELSE LET t == LastK(seq, k) IN \A i \in 1..(Len(t) - 1) : t[i] > t[i + 1]

\* _delta_slope_tag, _momentum_code
_delta_slope_tag(s, k) ==
    IF _is_strictly_increasing(s.delta_raw, k) THEN "up"
    ELSE IF _is_strictly_decreasing(s.delta_raw, k) THEN "down"
    ELSE "flat"

_momentum_code(s) ==
    IF _is_hh_hl(s.prices) THEN "HHHL"
    ELSE IF _is_ll_lh(s.prices) THEN "LLLH"
    ELSE "-"

\* _absorption_ok: traded volume high and price range small over the window
_absorption_ok(s) ==
    IF Len(s.abs_range_prices) < Max(3, s.cfg.absorption_window) THEN FALSE
    ELSE LET hi == SeqMax(s.abs_range_prices)
             lo == SeqMin(s.abs_range_prices)
         IN /\ Sum(s.abs_qty) >= s.cfg.absorption_min_traded_qty
            \* rng / mid * 10000 <= max bps, mid = (hi + lo) / 2
            /\ (hi + lo = 0 \/ (hi - lo) * 20000 <= s.cfg.absorption_max_price_range_bps * (hi + lo))

\* the average of imbalance_raw and the depth ratio bid_qty / max(1, ask_qty)
imb_avg(s) == LET t == RSum(s.imbalance_raw) IN <<t[1], t[2] * Len(s.imbalance_raw)>>
depth_ratio(bid_qty, ask_qty) ==
    IF bid_qty # 0 /\ ask_qty # 0 THEN <<bid_qty, Max(1, ask_qty)>> ELSE <<1, 1>>

\* ------------------------------------------------- clock and session filters
\* dt.datetime.now(tz) is a number of seconds since midnight, Asia/Kolkata
MinuteOfDay(now) == now \div 60
HHMM(t) == t[1] * 60 + t[2]
MarketOpen == HHMM(<<9, 15>>) * 60

\* mutant: the lunch blackout is not tested
_session_filters_pass_ignores_lunch(s, now) ==
    LET _in_range(t) == MinuteOfDay(now) >= HHMM(t)
        _before(t)   == MinuteOfDay(now) < HHMM(t)
    IN IF now - MarketOpen < s.cfg.skip_first_minutes * 60 THEN FALSE
       ELSE IF s.cfg.use_best_windows
            THEN \E i \in 1..Len(s.cfg.best_windows) :
                     _in_range(s.cfg.best_windows[i][1]) /\ _before(s.cfg.best_windows[i][2])
       ELSE TRUE

\* _session_filters_pass
_session_filters_pass(s, now) ==
    LET _in_range(t) == MinuteOfDay(now) >= HHMM(t)
        _before(t)   == MinuteOfDay(now) < HHMM(t)
    IN IF now - MarketOpen < s.cfg.skip_first_minutes * 60 THEN FALSE
       ELSE IF _in_range(s.cfg.lunch_skip_start) /\ _before(s.cfg.lunch_skip_end) THEN FALSE
       ELSE IF s.cfg.use_best_windows
            THEN \E i \in 1..Len(s.cfg.best_windows) :
                     _in_range(s.cfg.best_windows[i][1]) /\ _before(s.cfg.best_windows[i][2])
       ELSE TRUE

\* _vwap_filter_pass
_vwap_filter_pass(s, last_price) ==
    IF s.vwap_history = <<>> THEN FALSE
    ELSE LET vwap == s.vwap_history[Len(s.vwap_history)]
             first == s.vwap_history[1]
         IN \/ (RLt(vwap, <<last_price, 1>>) /\ RLt(first, vwap))
            \/ (RLt(<<last_price, 1>>, vwap) /\ RLt(vwap, first))

\* _signals: <<long_ok, short_ok>>; `absorp_ok or True` is always true
_signals(s, lp, bid_qty, ask_qty) ==
    LET hh_hl == IF s.cfg.require_hh_hl_for_long THEN _is_hh_hl(s.prices) ELSE TRUE
        ll_lh == IF s.cfg.require_ll_lh_for_short THEN _is_ll_lh(s.prices) ELSE TRUE
        delta_inc == _is_strictly_increasing(s.delta_raw, s.cfg.delta_trend_ticks)
        delta_dec == _is_strictly_decreasing(s.delta_raw, s.cfg.delta_trend_ticks)
        avg == imb_avg(s)
        ratio == depth_ratio(bid_qty, ask_qty)
        n == Len(s.vwap_history)
        vwap == IF n > 0 THEN s.vwap_history[n] ELSE <<lp, 1>>
        vwap_up == IF n >= 2 THEN RLt(s.vwap_history[1], s.vwap_history[n]) ELSE TRUE
        vwap_dn == IF n >= 2 THEN RLt(s.vwap_history[n], s.vwap_history[1]) ELSE TRUE
    IN [ long_ok |->
            /\ hh_hl /\ delta_inc
            /\ RLe(s.cfg.imbalance_threshold_long, avg)
            /\ RLe(s.cfg.depth_ratio_min_long, ratio)
            /\ (~s.cfg.use_vwap_filter \/ (RLt(vwap, <<lp, 1>>) /\ vwap_up)),
         short_ok |->
            /\ ll_lh /\ delta_dec
            /\ RLe(avg, s.cfg.imbalance_threshold_short)
            /\ RLe(ratio, s.cfg.depth_ratio_max_short)
            /\ (~s.cfg.use_vwap_filter \/ (RLt(<<lp, 1>>, vwap) /\ vwap_dn)) ]

\* ---------------------------------------------------------- exit conditions
\* _should_exit_on_spread: spread_pct > 2 * max_spread_pct, spread_pct = (ask - bid) / mid
_should_exit_on_spread(s, best_bid, best_ask) ==
    RLt(<<2 * s.cfg.max_spread_pct[1], s.cfg.max_spread_pct[2]>>,
        <<2 * (best_ask - best_bid), best_bid + best_ask>>)

\* _imbalance_against_position
_imbalance_against_position(s) ==
    IF s.imbalance_raw = <<>> THEN FALSE
    ELSE IF s.position = "LONG" THEN RLe(imb_avg(s), s.cfg.imbalance_threshold_short)
    ELSE RLe(s.cfg.imbalance_threshold_long, imb_avg(s))

\* _delta_trend_against_position
_delta_trend_against_position(s, k) ==
    IF Len(s.delta_raw) < k THEN FALSE
    ELSE \/ (s.position = "LONG" /\ _is_strictly_decreasing(s.delta_raw, k))
         \/ (s.position = "SHORT" /\ _is_strictly_increasing(s.delta_raw, k))

\* _should_exit_now: target, time stop, opposite flow, depth flip
_should_exit_now(s, lp, bid_qty, ask_qty, now) ==
    LET e == IF s.entry_price = Nil THEN 0 ELSE Val(s.entry_price)
        ret == IF s.position = "LONG" THEN <<lp - e, e>> ELSE <<e - lp, e>>
        ratio == depth_ratio(bid_qty, ask_qty)
    IN \/ (e # 0 /\ RLe(s.cfg.target_pct, ret))
       \/ (/\ s.cfg.time_stop_seconds > 0
           /\ s.last_entry_ts # Nil
           /\ now - Val(s.last_entry_ts) >= s.cfg.time_stop_seconds)
       \/ _imbalance_against_position(s)
       \/ _delta_trend_against_position(s, s.cfg.delta_trend_ticks)
       \/ (s.position = "LONG" /\ RLt(ratio, s.cfg.depth_ratio_max_short))
       \/ (s.position = "SHORT" /\ RLt(s.cfg.depth_ratio_min_long, ratio))

\* ------------------------------------------------------------- the gateway
\* what place_cover_order may do, seen from _enter: return a response carrying
\* an order id, return one without, or raise
GatewayOutcomes == {"order_id", "no_order_id", "raise"}

\* core/broker.py: the methods class Broker defines; exit_cover_order, which
\* _exit and the square-off routes call, is not among them
BrokerMethods == {"load_access_token", "save_access_token", "login_url",
                  "exchange_request_token", "_interactive_login", "login", "profile",
                  "ltp", "instruments", "historical", "place_market_order",
                  "place_cover_order"}

\* broker.<method>(...): AttributeError when Broker has no such method,
\* otherwise what the gateway does
broker_call(method, gw) ==
    IF method \notin BrokerMethods THEN "AttributeError" ELSE gw

\* ------------------------------------------------------------ entry / exit
\* n / d rounded to the nearest integer, ties to even (Python's round)
RoundDiv(n, d) ==
    LET q == n \div d
        r == n % d
    IN IF 2 * r < d THEN q
       ELSE IF 2 * r > d THEN q + 1
       ELSE IF q % 2 = 0 THEN q ELSE q + 1

\* round(price * (1 -/+ sl_pct), 2), in units of 0.01
raw_trig(price, side, sl_pct) ==
    IF side = "BUY" THEN RoundDiv(price * (sl_pct[2] - sl_pct[1]), sl_pct[2])
    ELSE RoundDiv(price * (sl_pct[2] + sl_pct[1]), sl_pct[2])

\* mutant: the call to round_to_tick returns
round_to_tick_returns == FALSE

\* round_to_tick(value, tick=0.10) is written in the class body without self and
\* without @staticmethod, and _enter calls it as self.round_to_tick(raw_trig,
\* tick_size): the bound call hands three arguments to a function of two
\* parameters, which raises TypeError before anything is computed
round_to_tick_raises == TRUE

\* the value round_to_tick would return for tick 0.10: a multiple of 10 units
round_to_tick(value) == RoundDiv(value, 10) * 10

\* the result of _enter / _exit: the engine after, the gateway calls made, and
\* whether an exception left the method
Act(s, made, raised) == [s |-> s, calls |-> made, raised |-> raised]

\* mutant: the order is sent first, whatever dry_run says
_enter_order_first(s, side, price, now, gw) ==
    Act(s, <<[op |-> "place_cover_order", symbol |-> s.symbol, side |-> side,
              trigger_price |-> raw_trig(price, side, s.cfg.stoploss_pct),
              parent_order_id |-> None]>>, FALSE)

\* _enter(side, price)
_enter(s, side, price, now, gw) ==
    IF round_to_tick_raises THEN Act(s, <<>>, TRUE)
    ELSE
    LET s1 == [s EXCEPT !.position = IF side = "BUY" THEN "LONG" ELSE "SHORT",
                        !.entry_price = Some(price),
                        !.last_entry_ts = Some(now),
                        !.trades_taken = @ + 1]
        call == [op |-> "place_cover_order", symbol |-> s.symbol, side |-> side,
                 trigger_price |-> round_to_tick(raw_trig(price, side, s.cfg.stoploss_pct)),
                 parent_order_id |-> None]
        resp == broker_call("place_cover_order", gw)
    IN IF s.cfg.dry_run
         THEN Act([s1 EXCEPT !.parent_order_id = "DRY_PARENT"], <<>>, FALSE)
       ELSE IF resp = "order_id"
         THEN Act([s1 EXCEPT !.parent_order_id = "ORDER"], <<call>>, FALSE)
       ELSE IF resp = "no_order_id"
         THEN Act([s1 EXCEPT !.parent_order_id = ""], <<call>>, FALSE)
       ELSE \* except Exception: reset state on failure
            Act([s1 EXCEPT !.position = None, !.entry_price = Nil, !.parent_order_id = None],
                IF resp = "AttributeError" THEN <<>> ELSE <<call>>, FALSE)

\* the position fields cleared
Cleared(s) == [s EXCEPT !.position = None, !.entry_price = Nil, !.parent_order_id = None]

\* `not self.parent_order_id`
NoParent(id) == id = None \/ id = ""

\* _exit(reason): every path out of the try block runs the finally block
_exit(s, gw) ==
    IF s.position = None THEN Act(s, <<>>, FALSE)
    ELSE IF s.cfg.dry_run THEN Act(Cleared(s), <<>>, FALSE)
    ELSE IF NoParent(s.parent_order_id) THEN Act(Cleared(s), <<>>, FALSE)
    ELSE LET call == [op |-> "exit_cover_order", symbol |-> s.symbol, side |-> "",
                      trigger_price |-> 0, parent_order_id |-> s.parent_order_id]
             resp == broker_call("exit_cover_order", gw)
         IN Act(Cleared(s), IF resp = "AttributeError" THEN <<>> ELSE <<call>>, FALSE)

\* ----------------------------------------------------------------- on_tick
\* the universe: symbol -> instrument token (ctx.tokens, built by build_maps)
_sym2tok == [S1 |-> 1, S2 |-> 2]

\* `self.position or "FLAT"`
PositionState(s) == IF s.position = None THEN "FLAT" ELSE s.position

\* True / False / None of a filter flag in a snapshot
Flag(b) == IF b THEN "True" ELSE "False"

\* _emit_diag: the snapshot handed to ctx.report (the rounded vwap, imb_avg and
\* depth_ratio, which only the display reads, are left out)
_emit_diag(s, lp, spread_ok, jump_ok, session_ok, vwap_ok, delta_slope, momentum_code, absorption_ok, long_ok, short_ok, decision_action) ==
    [ symbol |-> s.symbol, price |-> lp,
      delta_slope |-> delta_slope, momentum |-> momentum_code, absorption |-> absorption_ok,
      session_ok |-> session_ok, vwap_ok |-> vwap_ok,
      spread_ok |-> spread_ok, jump_ok |-> jump_ok,
      long_ok |-> long_ok, short_ok |-> short_ok,
      action |-> decision_action,
      state |-> PositionState(s), entry_price |-> s.entry_price ]

\* the snapshot of a tick rejected or held before the signals are computed
DiagEarly(s, lp, spread_ok, jump_ok, session_ok, vwap_ok) ==
    _emit_diag(s, lp, spread_ok, jump_ok, session_ok, vwap_ok, "flat", "-", FALSE,
               FALSE, FALSE, "HOLD")

\* the snapshot of a tick that reached the signals
DiagFull(s, lp, spread_ok, jump_ok, long_ok, short_ok, decision_action) ==
    _emit_diag(s, lp, spread_ok, jump_ok, "True", "True",
               _delta_slope_tag(s, s.cfg.delta_trend_ticks), _momentum_code(s),
               _absorption_ok(s), long_ok, short_ok, decision_action)

\* the result of on_tick: the engine after, the snapshots reported, the gateway
\* calls made, whether an exception left on_tick
Ret(s, diags, made, raised) == [s |-> s, diags |-> diags, calls |-> made, raised |-> raised]

\* on_tick, lines 114-141: the rolling updates
RollingUpdate(s, tick, lp) ==
    LET best_bid == _best_bid(tick.depth)
        best_ask == _best_ask(tick.depth)
        ltq == IF tick.ltq = Nil \/ tick.ltq = Some(0) THEN 1 ELSE Val(tick.ltq)
        delta == IF best_ask # 0 /\ lp >= best_ask THEN ltq
                 ELSE IF best_bid # 0 /\ lp <= best_bid THEN -ltq
                 ELSE 0
        bid_qty == _sum_qty(tick.depth.buy, s.depth_levels)
        ask_qty == _sum_qty(tick.depth.sell, s.depth_levels)
        denom == IF bid_qty + ask_qty = 0 THEN 1 ELSE bid_qty + ask_qty
        cum_pv == s.cum_pv + lp * ltq
        cum_v == s.cum_v + ltq
        vwap == IF cum_v > 0 THEN <<cum_pv, cum_v>> ELSE <<lp, 1>>
    IN [s EXCEPT !.prices = deque_append(@, lp, s.window_mom),
                 !.delta_raw = deque_append(@, delta, s.window_delta),
                 !.imbalance_raw = deque_append(@, <<bid_qty - ask_qty, denom>>, s.window_imb),
                 !.abs_range_prices = deque_append(@, lp, s.abs_maxlen),
                 !.abs_qty = deque_append(@, ltq, s.abs_maxlen),
                 !.cum_pv = cum_pv,
                 !.cum_v = cum_v,
                 !.vwap_history = deque_append(@, vwap, s.vwap_maxlen)]

\* on_tick, lines 143-147: not enough data yet
WarmingUp(s) ==
    \/ Len(s.prices) < Max(5, s.window_mom)
    \/ Len(s.delta_raw) < s.window_delta
    \/ Len(s.imbalance_raw) < s.window_imb

\* the cooldown gate of line 200 and the trade cap of line 216
\* mutant: the cap compares with >
TradeCapExceeded(s) == s.trades_taken > s.cfg.max_trades_per_session

InCooldown(s, now) ==
    s.last_entry_ts # Nil /\ now - Val(s.last_entry_ts) < s.cfg.cooldown_seconds
TradeCapReached(s) == s.trades_taken >= s.cfg.max_trades_per_session

\* the result of on_tick when its last statement is _enter or _exit with
\* result x, after the snapshots diags were reported
Acted(x, diags) == Ret(x.s, diags, x.calls, x.raised)

\* on_tick, lines 198-272, for a flat engine past its filters: cooldown, trade
\* cap, then the decision on the signals sig
Decide(s, lp, now, gw, sig) ==
    IF InCooldown(s, now) \/ TradeCapReached(s)
      THEN Ret(s, <<DiagFull(s, lp, "True", "True", sig.long_ok, sig.short_ok, "HOLD")>>,
               <<>>, FALSE)
    ELSE IF sig.long_ok
      THEN Acted(_enter(s, "BUY", lp, now, gw),
                 <<DiagFull(s, lp, "True", "True", TRUE, FALSE, "ENTER_LONG")>>)
    ELSE IF sig.short_ok
      THEN Acted(_enter(s, "SELL", lp, now, gw),
                 <<DiagFull(s, lp, "True", "True", FALSE, TRUE, "ENTER_SHORT")>>)
    ELSE Ret(s, <<DiagFull(s, lp, "True", "True", FALSE, FALSE, "HOLD")>>, <<>>, FALSE)

\* on_tick, lines 149-196, on the engine after the rolling updates: position
\* management, session and VWAP filters, signals
Manage(s, lp, now, gw, bid_qty, ask_qty) ==
    IF s.position # None
      THEN IF _should_exit_now(s, lp, bid_qty, ask_qty, now)
             THEN Acted(_exit(s, gw), <<DiagFull(s, lp, "True", "True", FALSE, FALSE, "EXIT")>>)
             ELSE Ret(s, <<>>, <<>>, FALSE)
    ELSE IF ~_session_filters_pass(s, now)
      THEN Ret(s, <<DiagEarly(s, lp, "True", "True", "False", None)>>, <<>>, FALSE)
    ELSE IF s.cfg.use_vwap_filter /\ ~_vwap_filter_pass(s, lp)
      THEN Ret(s, <<DiagEarly(s, lp, "True", "True", "True", "False")>>, <<>>, FALSE)
    ELSE Decide(s, lp, now, gw, _signals(s, lp, bid_qty, ask_qty))

\* on_tick, lines 149-272, on the engine after the rolling updates
Evaluate(s, tick, lp, now, gw) ==
    Manage(s, lp, now, gw, _sum_qty(tick.depth.buy, s.depth_levels),
           _sum_qty(tick.depth.sell, s.depth_levels))

\* on_tick, lines 143-272, on the engine after the rolling updates
AfterUpdate(s, tick, lp, now, gw) ==
    IF WarmingUp(s) THEN Ret(s, <<>>, <<>>, FALSE) ELSE Evaluate(s, tick, lp, now, gw)

\* on_tick, lines 58-71: the tick is of this engine's token and has a price
Owned(s, tick) ==
    /\ s.symbol \in DOMAIN _sym2tok
    /\ tick.instrument_token = _sym2tok[s.symbol]
    /\ tick.last_price # Nil

\* on_tick, lines 73-112, both inside `if best_bid and best_ask`: the spread
\* filter, spread_pct = (ask - bid) / mid with mid = (bid + ask) / 2, and the
\* jump filter against the last accepted price
BothSides(tick) == _best_bid(tick.depth) # 0 /\ _best_ask(tick.depth) # 0

SpreadTooWide(s, tick) ==
    /\ BothSides(tick)
    /\ RLt(s.cfg.max_spread_pct,
           <<2 * (_best_ask(tick.depth) - _best_bid(tick.depth)),
             _best_bid(tick.depth) + _best_ask(tick.depth)>>)

\* mutant: the move is measured from the last tick seen, accepted or not
jump_bps_from_last_tick(s, lp) ==
    <<Abs(lp - px[_sym2tok[s.symbol]]) * 10000, px[_sym2tok[s.symbol]]>>

jump_bps(s, lp) == <<Abs(lp - s.prices[Len(s.prices)]) * 10000, s.prices[Len(s.prices)]>>

JumpTooBig(s, tick, lp) ==
    /\ BothSides(tick)
    /\ s.prices # <<>>
    /\ RLt(<<s.cfg.max_tick_jump_bps, 1>>, jump_bps(s, lp))

\* mutant: the rolling updates made before the filters
on_tick_owned_updates_first(s, tick, lp, now, gw) ==
    IF SpreadTooWide(s, tick)
      THEN Ret(RollingUpdate(s, tick, lp), <<DiagEarly(s, lp, "False", "True", None, None)>>,
               <<>>, FALSE)
    ELSE IF JumpTooBig(s, tick, lp)
      THEN Ret(RollingUpdate(s, tick, lp), <<DiagEarly(s, lp, "True", "False", None, None)>>,
               <<>>, FALSE)
    ELSE AfterUpdate(RollingUpdate(s, tick, lp), tick, lp, now, gw)

\* on_tick for a tick that is the engine's and has the price lp
on_tick_owned(s, tick, lp, now, gw) ==
    IF SpreadTooWide(s, tick)
      THEN Acted(IF s.position # None
                    /\ _should_exit_on_spread(s, _best_bid(tick.depth), _best_ask(tick.depth))
                   THEN _exit(s, gw) ELSE Act(s, <<>>, FALSE),
                 <<DiagEarly(s, lp, "False", "True", None, None)>>)
    ELSE IF JumpTooBig(s, tick, lp)
      THEN Acted(IF s.position # None
                    /\ RLt(<<2 * s.cfg.max_tick_jump_bps, 1>>, jump_bps(s, lp))
                   THEN _exit(s, gw) ELSE Act(s, <<>>, FALSE),
                 <<DiagEarly(s, lp, "True", "False", None, None)>>)
    ELSE AfterUpdate(RollingUpdate(s, tick, lp), tick, lp, now, gw)

\* on_tick(tick); `now` is the clock the call reads
on_tick(s, tick, now, gw) ==
    IF ~Owned(s, tick) THEN Ret(s, <<>>, <<>>, FALSE)
    ELSE on_tick_owned(s, tick, Val(tick.last_price), now, gw)

\* on_tick gets past its filters, its rolling updates and the warm-up check
\* (lines 58-147) to the position management and the decision (lines 149-272)
Admitted(s, tick) ==
    /\ Owned(s, tick)
    /\ ~SpreadTooWide(s, tick)
    /\ ~JumpTooBig(s, tick, Val(tick.last_price))
    /\ ~WarmingUp(RollingUpdate(s, tick, Val(tick.last_price)))

\* ------------------------------------------------------- handlers on the bus
\* feed_start.make_handler(s): `for t in ticks: s.on_tick(t)`, nothing caught:
\* the first on_tick that raises ends the loop
\* the handler's progress r after one more on_tick with result n
Then(r, n) == Ret(n.s, r.diags \o n.diags, r.calls \o n.calls, n.raised)

RECURSIVE handler_from(_, _, _, _, _)
handler_from(r, ticks, i, now, gw) ==
    IF i > Len(ticks) \/ r.raised THEN r
    ELSE handler_from(Then(r, on_tick(r.s, ticks[i], now, gw)), ticks, i + 1, now, gw)

\* mutant: the loop goes on with the next tick after an on_tick that raised
RECURSIVE handler_each(_, _, _, _, _)
handler_each(r, ticks, i, now, gw) ==
    IF i > Len(ticks) THEN r
    ELSE handler_each(Then(r, on_tick(r.s, ticks[i], now, gw)), ticks, i + 1, now, gw)

handler_catches(s, ticks, now, gw) == handler_each(Ret(s, <<>>, <<>>, FALSE), ticks, 1, now, gw)

handler(s, ticks, now, gw) == handler_from(Ret(s, <<>>, <<>>, FALSE), ticks, 1, now, gw)

\* the callables feed_start subscribes
UiSink(n) == [kind |-> "ui_sink", id |-> n]
Handler(e) == [kind |-> "handler", id |-> e]

\* report_diag(symbol, diag): STRAT_DIAG[symbol] is a deque(maxlen=50)
DiagCap == 50

\* STRAT_DIAG.get(symbol, [])
STRAT_DIAG_get(diag, symbol) == IF symbol \in DOMAIN diag THEN diag[symbol] ELSE <<>>

\* diag.setdefault("symbol", symbol)
setdefault_symbol(snap, symbol) ==
    IF "symbol" \in DOMAIN snap THEN snap ELSE dict_update(snap, [symbol |-> symbol])

\* report_diag(symbol, diag) run to its end with DIAG_LOCK held throughout:
\* the symbol's deque, made when there is none, with the snapshot appended
report_diag(diag, symbol, snap) ==
    dict_update(diag, [k \in {symbol} |->
                         deque_append(STRAT_DIAG_get(diag, symbol),
                                      setdefault_symbol(snap, symbol), DiagCap)])

\* the history of what was recorded for the symbol, never trimmed
logged(rec, symbol, snap) ==
    dict_update(rec, [k \in {symbol} |->
                        Append(STRAT_DIAG_get(rec, symbol), setdefault_symbol(snap, symbol))])

\* the snapshots one on_tick call emitted, reported in order
RECURSIVE report_all(_, _)
report_all(diag, snaps) ==
    IF snaps = <<>> THEN diag
    ELSE report_all(report_diag(diag, Head(snaps).symbol, Head(snaps)), Tail(snaps))

RECURSIVE logged_all(_, _)
logged_all(rec, snaps) ==
    IF snaps = <<>> THEN rec
    ELSE logged_all(logged(rec, Head(snaps).symbol, Head(snaps)), Tail(snaps))

\* report_diag statement by statement, on thread t. A thread's dq is None, the
\* deque STRAT_DIAG holds for its symbol ("installed"), or a deque that
\* STRAT_DIAG no longer holds ("orphan")
\* mutant: `with DIAG_LOCK` lets a thread in while another holds the lock
DiagLockIgnored(lock) == TRUE

DiagLockFree(lock) == lock = "free"

\* lines 67-69: the call, diag copied and given its symbol
report_diag_call(t, symbol, snap) ==
    /\ reporting[t].pc = "idle"
    /\ reporting' = [reporting EXCEPT ![t] = [pc |-> "lock", symbol |-> symbol,
                                              diag |-> Some(setdefault_symbol(snap, symbol)),
                                              dq |-> None]]
    /\ UNCHANGED <<stream, busVars, busHist, appVars, envVars, inflight, DIAG_LOCK, recorded>>

\* line 70: with DIAG_LOCK
report_diag_acquire(t) ==
    /\ reporting[t].pc = "lock"
    /\ DiagLockFree(DIAG_LOCK)
    /\ DIAG_LOCK' = t
    /\ reporting' = [reporting EXCEPT ![t].pc = "get"]
    /\ recorded' = logged(recorded, reporting[t].symbol, Val(reporting[t].diag))
    /\ UNCHANGED <<stream, busVars, busHist, appVars, envVars, inflight>>

\* lines 71-72: dq = STRAT_DIAG.get(symbol); if dq is None
report_diag_get(t) ==
    /\ reporting[t].pc = "get"
    /\ reporting' = [reporting EXCEPT ![t] =
                        IF reporting[t].symbol \in DOMAIN STRAT_DIAG
                          THEN [@ EXCEPT !.dq = "installed", !.pc = "append"]
                          ELSE [@ EXCEPT !.dq = None, !.pc = "create"]]
    /\ UNCHANGED <<stream, busVars, busHist, appVars, envVars, inflight, DIAG_LOCK, recorded>>

\* lines 73-74: dq = deque(maxlen=50); STRAT_DIAG[symbol] = dq
report_diag_create(t) ==
    /\ reporting[t].pc = "create"
    /\ STRAT_DIAG' = dict_update(STRAT_DIAG, [k \in {reporting[t].symbol} |-> <<>>])
    /\ reporting' = [u \in DOMAIN reporting |->
                        IF u = t THEN [reporting[u] EXCEPT !.dq = "installed", !.pc = "append"]
                        ELSE IF reporting[u].symbol = reporting[t].symbol
                                /\ reporting[u].dq = "installed"
                          THEN [reporting[u] EXCEPT !.dq = "orphan"]
                        ELSE reporting[u]]
    /\ UNCHANGED <<stream, busVars, busHist, _stream, _strategies, _config_overrides, engines,
                   envVars, inflight, DIAG_LOCK, recorded>>

\* line 75: dq.append(diag)
report_diag_append(t) ==
    /\ reporting[t].pc = "append"
    /\ STRAT_DIAG' = IF reporting[t].dq = "installed"
                       THEN [STRAT_DIAG EXCEPT ![reporting[t].symbol] =
                               deque_append(@, Val(reporting[t].diag), DiagCap)]
                       ELSE STRAT_DIAG
    /\ reporting' = [reporting EXCEPT ![t].pc = "release"]
    /\ UNCHANGED <<stream, busVars, busHist, _stream, _strategies, _config_overrides, engines,
                   envVars, inflight, DIAG_LOCK, recorded>>

\* the end of the with block and the return
report_diag_release(t) ==
    /\ reporting[t].pc = "release"
    /\ DIAG_LOCK' = IF DIAG_LOCK = t THEN "free" ELSE DIAG_LOCK
    /\ reporting' = [reporting EXCEPT ![t] = [pc |-> "idle", symbol |-> None, diag |-> Nil,
                                              dq |-> None]]
    /\ UNCHANGED <<stream, busVars, busHist, appVars, envVars, inflight, recorded>>

\* whether engine e is in the module's _strategies list
InStrategies(e) == \E i \in 1..Len(_strategies) : _strategies[i] = e

\* TickBus.publish run to its end in one step: the engines, the snapshots,
\* the gateway log and the calls made, after fn(ticks) returned or raised
\* with result r for the engine handler fn
Called(st, fn, ticks, r) ==
    [ engines |-> [st.engines EXCEPT ![fn.id] = r.s],
      diag |-> report_all(st.diag, r.diags),
      rec |-> logged_all(st.rec, r.diags),
      calls |-> st.calls \o r.calls,
      recv |-> Append(st.recv, [fn |-> fn, ticks |-> ticks, active |-> InStrategies(fn.id)]),
      raised |-> IF r.raised THEN st.raised \cup {Len(st.recv) + 1} ELSE st.raised ]

\* whether the call just made raised
LastRaised(st) == Len(st.recv) \in st.raised

RECURSIVE publish_from(_, _, _, _, _, _)
RECURSIVE publish_next(_, _, _, _, _, _)
\* the loop after its i-th turn left st
publish_next(st, subs, i, ticks, now, gw) ==
    publish_from(st, subs,
                 IF LastRaised(st) THEN publish_after_raise(i, Len(subs)) ELSE i + 1,
                 ticks, now, gw)

\* `for fn in subs: try: fn(ticks)` from subs[i] on
publish_from(st, subs, i, ticks, now, gw) ==
    IF i > Len(subs) THEN st
    ELSE IF subs[i].kind # "handler"
      THEN \* ui_sink: last price, timestamp and last-50 maps of the panel, not modelled
           publish_from([st EXCEPT !.recv = Append(@, [fn |-> subs[i], ticks |-> ticks])],
                        subs, i + 1, ticks, now, gw)
    ELSE publish_next(Called(st, subs[i], ticks, handler(st.engines[subs[i].id], ticks, now, gw)),
                      subs, i, ticks, now, gw)

\* what a finished publish leaves in the program and in the bus history
published_as(st, ticks) ==
    /\ engines' = st.engines
    /\ STRAT_DIAG' = st.diag
    /\ recorded' = st.rec
    /\ calls' = st.calls
    /\ published' = Append(published, ticks)
    /\ callReg' = Append(callReg, Len(subLog))
    /\ recv' = Append(recv, st.recv)
    /\ raises' = raises \cup {<<Len(published) + 1, k>> : k \in st.raised}

\* Stream._on_ticks(ws, ticks) on the feed thread: `if ticks: self.bus.publish(ticks)`,
\* every handler run to its end; the clock moves on by dt afterwards
_on_ticks(ticks, dt, gw) ==
    /\ ws # {}
    /\ ticks # <<>>
    /\ inflight = Nil
    /\ pub.pc = "idle"
    /\ _lock = "free"
    /\ published_as(publish_from([engines |-> engines, diag |-> STRAT_DIAG, rec |-> recorded,
                                  calls |-> calls, recv |-> <<>>, raised |-> {}],
                                 publish_iterates(_subs, _subs), 1, ticks, clock, gw), ticks)
    /\ clock' = clock + dt
    /\ px' = [t \in DOMAIN px |->
                LET mine == {i \in 1..Len(ticks) :
                               ticks[i].instrument_token = t /\ ticks[i].last_price # Nil}
                IN IF mine = {} THEN px[t]
                   ELSE Val(ticks[CHOOSE i \in mine : \A j \in mine : j <= i].last_price)]
    /\ UNCHANGED <<stream, inflight, diagVars, busVars, subLog, subAt, _stream, _strategies,
                   _config_overrides, ws, nstart>>

\* Stream._on_ticks for a one-tick batch on a bus with the panel's sink and
\* one engine handler, cut at line 148 of on_tick; the first part: publish
\* calls the sink and the handler, on_tick reads the clock, passes its filters
\* and updates its windows
on_tick_admit(tick) ==
    /\ ws # {}
    /\ inflight = Nil
    /\ pub.pc = "idle"
    /\ _lock = "free"
    /\ Len(_subs) = 2
    /\ _subs[2].kind = "handler"
    /\ Admitted(engines[_subs[2].id], tick)
    /\ engines' = [engines EXCEPT ![_subs[2].id] = RollingUpdate(@, tick, Val(tick.last_price))]
    /\ inflight' = Some([e |-> _subs[2].id, tick |-> tick, now |-> clock,
                         cfg |-> engines[_subs[2].id].cfg])
    /\ published' = Append(published, <<tick>>)
    /\ callReg' = Append(callReg, Len(subLog))
    /\ recv' = Append(recv, <<[fn |-> _subs[1], ticks |-> <<tick>>],
                              [fn |-> _subs[2], ticks |-> <<tick>>,
                               active |-> InStrategies(_subs[2].id)]>>)
    /\ px' = [px EXCEPT ![tick.instrument_token] = Val(tick.last_price)]
    /\ UNCHANGED <<stream, busVars, subLog, subAt, raises, _stream, _strategies, _config_overrides,
                   STRAT_DIAG, ws, nstart, clock, calls, diagVars, recorded>>

\* what on_tick's second part leaves when its result for engine e is r
decided_as(e, r) ==
    /\ engines' = [engines EXCEPT ![e] = r.s]
    /\ STRAT_DIAG' = report_all(STRAT_DIAG, r.diags)
    /\ recorded' = logged_all(recorded, r.diags)
    /\ calls' = calls \o r.calls
    /\ raises' = IF r.raised THEN raises \cup {<<Len(published), 2>>} ELSE raises

\* the second part: lines 149-272 on the engine as it is now, then the handler
\* and publish return
on_tick_decide(gw) ==
    /\ inflight # Nil
    /\ decided_as(Val(inflight).e,
                  Evaluate(engines[Val(inflight).e], Val(inflight).tick,
                           Val(Val(inflight).tick.last_price), Val(inflight).now, gw))
    /\ inflight' = Nil
    /\ clock' = clock + 1
    /\ UNCHANGED <<stream, busVars, subLog, subAt, published, callReg, recv, _stream, _strategies,
                   _config_overrides, ws, nstart, px, diagVars>>

\* ------------------------------------------------------------------ Stream
\* the largest instrument token of the runs of the Stream alone
MaxToken == 1201

\* _subscribe_in_chunks(tokens, chunk_size=400)
chunk_size == 400

\* enable_reconnect(retries=50) / reconnect_max_tries = 50
reconnect_retries == 50

\* the tokens lo..hi in order
Interval(lo, hi) == [i \in 1..(hi - lo + 1) |-> lo + i - 1]

\* set(...) of a list
set(seq) == {seq[i] : i \in DOMAIN seq}

\* sorted(...) of a set of tokens: ascending
sorted(S) == SelectSeq(Interval(1, MaxToken), LAMBDA t : t \in S)

\* (mode or "FULL").upper()
str_upper(mode) ==
    IF mode \in {"FULL", "full", "Full"} THEN "FULL"
    ELSE IF mode \in {"LTP", "ltp"} THEN "LTP"
    ELSE IF mode \in {"QUOTE", "quote"} THEN "QUOTE"
    ELSE mode

\* a call that reached the KiteTicker: subscribe(tokens), unsubscribe(tokens)
\* or set_mode(mode, tokens), and whether it raised
KwsCall(op, mode, toks, raised) == [op |-> op, mode |-> mode, tokens |-> toks, raised |-> raised]

\* Stream.__init__: the tokens sorted without duplicates, the mode in upper
\* case, the reconnect budget asked of the KiteTicker; not connected.
\* issued / logged / args: the calls the last method made on kws, the errors
\* it logged and the token list it was given, for the properties
Stream(toks, mode) ==
    [ tokens |-> sorted(set(toks)),
      mode |-> str_upper(IF mode = None \/ mode = "" THEN "FULL" ELSE mode),
      retries |-> reconnect_retries,
      _connected |-> FALSE,
      conn |-> "DISCONNECTED",
      attempts |-> 0,
      issued |-> <<>>,
      logged |-> <<>>,
      args |-> Nil ]

\* Stream._chunk(seq, n): seq[i:i + n] for i = 0, n, 2n, ...
_chunk(seq, n) ==
    [k \in 1..((Len(seq) + n - 1) \div n) |->
        SubSeq(seq, (k - 1) * n + 1, Min(k * n, Len(seq)))]

\* the loop of _subscribe_in_chunks over the chunks: kws.subscribe(chunk),
\* a raise logged and the loop going on; fails: the chunks whose call raises
subscribe_each(st, chunks, fails) ==
    [st EXCEPT
       !.issued = @ \o [k \in 1..Len(chunks) |->
                          KwsCall("subscribe", None, chunks[k], k \in fails)],
       !.logged = @ \o [k \in 1..Cardinality(fails \cap (1..Len(chunks))) |->
                          "Subscribe failed for chunk"]]

_subscribe_in_chunks(st, toks, fails) == subscribe_each(st, _chunk(toks, chunk_size), fails)

\* a method of the Stream begins: nothing issued or logged by it yet
Entered(st) == [st EXCEPT !.issued = <<>>, !.logged = <<>>, !.args = Nil]

\* lines 86-90: `if rem:` kws.unsubscribe(rem), a raise logged
unsubscribe_rem(st, rem, unsub_raises) ==
    IF rem = <<>> THEN st
    ELSE [st EXCEPT !.issued = Append(@, KwsCall("unsubscribe", None, rem, unsub_raises)),
                    !.logged = IF unsub_raises THEN Append(@, "Unsubscribe failed") ELSE @]

\* lines 91-92: `if add:` self._subscribe_in_chunks(add)
subscribe_add(st, add, fails) ==
    IF add = <<>> THEN st ELSE _subscribe_in_chunks(st, add, fails)

\* mutant: the added tokens are subscribed in one call
update_tokens_resubscribes_all(st, new_tokens, unsub_raises, fails) ==
    [unsubscribe_rem(Entered(st), st.tokens, unsub_raises)
       EXCEPT !.issued = @ \o <<KwsCall("subscribe", None, sorted(set(new_tokens)), FALSE)>>,
              !.tokens = sorted(set(new_tokens)), !.args = Some(new_tokens)]

\* Stream.update_tokens(new_tokens); args: what it was called with, for the
\* properties
update_tokens(st, new_tokens, unsub_raises, fails) ==
    LET new == sorted(set(new_tokens))
        wanted == set(new)
        current == set(st.tokens)
        add == SelectSeq(new, LAMBDA t : t \notin current)
        rem == SelectSeq(st.tokens, LAMBDA t : t \notin wanted)
    IN [subscribe_add(unsubscribe_rem(Entered(st), rem, unsub_raises), add, fails)
          EXCEPT !.tokens = new, !.args = Some(new_tokens)]

\* lines 133-139: ws.set_mode(MODE_FULL or MODE_LTP, self.tokens), a raise logged
set_mode(st, mode_raises) ==
    [st EXCEPT
       !.issued = Append(@, KwsCall("set_mode",
                                    IF st.mode = "FULL" THEN "MODE_FULL" ELSE "MODE_LTP",
                                    st.tokens, mode_raises)),
       !.logged = IF mode_raises THEN Append(@, "set_mode failed") ELSE @]

\* mutant: the loop over the chunks ends at the first chunk that raises
_on_connect_stops_at_failure(st, fails, mode_raises) ==
    set_mode(subscribe_each([Entered(st) EXCEPT !._connected = TRUE, !.conn = "CONNECTED",
                                                !.attempts = 0],
                            SubSeq(_chunk(st.tokens, chunk_size), 1,
                                   SeqMin(<<Len(_chunk(st.tokens, chunk_size))>>
                                            \o sorted(fails))),
                            fails),
             mode_raises)

\* Stream._on_connect(ws, resp), called by the KiteTicker when the connection
\* is established, the first time and after every reconnect
_on_connect(st, fails, mode_raises) ==
    set_mode(_subscribe_in_chunks([Entered(st) EXCEPT !._connected = TRUE,
                                                      !.conn = "CONNECTED", !.attempts = 0],
                                  st.tokens, fails),
             mode_raises)

\* Stream.start(threaded): kws.connect(threaded=threaded)
Stream_start(st) == [Entered(st) EXCEPT !.conn = "CONNECTING"]

\* Stream._on_close / _on_error: logged; the KiteTicker goes on to reconnect
_on_close(st) == [Entered(st) EXCEPT !.logged = <<"WS closed">>, !.conn = "RECONNECTING"]

\* Stream._on_reconnect(ws, attempt_count): logged
_on_reconnect(st, attempt_count) ==
    [Entered(st) EXCEPT !.logged = <<"WS reconnecting">>, !.attempts = attempt_count]

\* mutant: the callback says nothing
_on_noreconnect_silent(st) == [Entered(st) EXCEPT !.conn = "NO_RECONNECT"]

\* Stream._on_noreconnect(ws), called by the KiteTicker when it gives up:
\* an error is logged, nothing else
_on_noreconnect(st) ==
    [Entered(st) EXCEPT !.logged = <<"WS will NOT reconnect further (max retries hit)">>,
                        !.conn = "NO_RECONNECT"]

\* tokens = [_sym2tok[s] for s in symbols if s in _sym2tok]
RECURSIVE UniverseTokens(_)
UniverseTokens(symbols) ==
    IF symbols = <<>> THEN <<>>
    ELSE IF Head(symbols) \in DOMAIN _sym2tok
      THEN <<_sym2tok[Head(symbols)]>> \o UniverseTokens(Tail(symbols))
    ELSE UniverseTokens(Tail(symbols))

\* -------------------------------------------------------------- the routes
\* the engines feed_start builds: one per symbol of the universe that has a token
RECURSIVE BuildAll(_, _)
BuildAll(symbols, ov) ==
    IF symbols = <<>> THEN <<>>
    ELSE IF Head(symbols) \in DOMAIN _sym2tok
      THEN <<OrderFlowLiquidityTrap(Head(symbols), ov)>> \o BuildAll(Tail(symbols), ov)
    ELSE BuildAll(Tail(symbols), ov)

\* POST /feed/start with universe.symbols = symbols. outcome: "refused" (no
\* token, profile() raised, or no symbol has a token: nothing changed),
\* "started", or "stream_failed" (Stream(...) raised after the engines were
\* built and subscribed)
\* "started" takes in the feed thread's first steps: the Stream is made for the
\* universe's tokens in FULL mode, started, and its connection established
feed_start(symbols, outcome) ==
    /\ _stream = Nil
    /\ _lock = "free" /\ subPending = Nil
    /\ IF outcome = "refused" \/ BuildAll(symbols, _config_overrides) = <<>>
         THEN UNCHANGED vars
         ELSE LET built == BuildAll(symbols, _config_overrides)
                  ids == [k \in 1..Len(built) |-> Len(engines) + k]
                  fns == <<UiSink(nstart + 1)>> \o [k \in 1..Len(ids) |-> Handler(ids[k])]
              IN /\ engines' = engines \o built
                 /\ _strategies' = ids
                 /\ _subs' = _subs \o fns
                 /\ subLog' = subLog \o fns
                 /\ subAt' = subAt \o [k \in 1..Len(fns) |->
                                         [n |-> Len(published), during |-> pub.pc = "loop"]]
                 /\ nstart' = nstart + 1
                 /\ IF outcome = "started"
                      THEN _stream' = Some(nstart + 1) /\ ws' = ws \cup {nstart + 1}
                      ELSE _stream' = Nil /\ ws' = ws
                 /\ stream' = IF outcome = "started"
                                THEN Some(_on_connect(Stream_start(Stream(UniverseTokens(symbols),
                                                                          "FULL")),
                                                      {}, FALSE))
                                ELSE stream
                 /\ UNCHANGED <<inflight, diagVars, recorded, _lock, pub, subPending, nfn, published, callReg, recv, raises,
                                _config_overrides, STRAT_DIAG, clock, px, calls>>

\* POST /feed/stop. closed: whether kws.close() closed the websocket (when it
\* raises, Stream.stop logs it and the connection stays as it was)
\* Stream.stop(): kws.close() inside try/except; a failure is logged and the
\* call returns
Stream_stop(closed) == IF closed THEN "closed" ELSE "logged"

\* mutant: the engine list outlives the stop
feed_stop_keeps_engines(st, closed) ==
    IF st._stream # Nil
      THEN [st EXCEPT !._stream = Nil, !.flash = "Feed stopped.", !.error = FALSE]
      ELSE [st EXCEPT !.flash = "Feed is not running.", !.error = FALSE]

\* feed_stop on the feed state st = [_stream, _strategies, ws]: the state it
\* leaves, the message it flashes, and whether an exception left the route
feed_stop_on(st, closed) ==
    IF st._stream # Nil
      THEN [st EXCEPT !._stream = Nil,
                      !._strategies = <<>>,
                      !.ws = IF Stream_stop(closed) = "closed" THEN @ \ {Val(st._stream)} ELSE @,
                      !.flash = "Feed stopped.",
                      !.error = FALSE]
      ELSE [st EXCEPT !.flash = "Feed is not running.", !.error = FALSE]

FeedState == [_stream |-> _stream, _strategies |-> _strategies, ws |-> ws,
              flash |-> "", error |-> FALSE]

feed_stopped(st) ==
    /\ _stream' = st._stream
    /\ _strategies' = st._strategies
    /\ ws' = st.ws
    /\ UNCHANGED <<inflight, diagVars, recorded, busVars, busHist, _config_overrides, STRAT_DIAG,
                   engines, nstart, clock, px, calls>>

\* _stream.stop() on the Stream object: kws.close() closes the connection and
\* ends its reconnecting, or raises and is logged
Stream_stopped(st, closed) ==
    IF Stream_stop(closed) = "closed" THEN [Entered(st) EXCEPT !.conn = "CLOSED"]
    ELSE [Entered(st) EXCEPT !.logged = <<"Error closing websocket">>]

feed_stop(closed) ==
    /\ feed_stopped(feed_stop_on(FeedState, closed))
    /\ stream' = IF _stream # Nil THEN Some(Stream_stopped(Val(stream), closed)) ELSE stream

\* the body both square-off routes run for one engine that is not flat
square_off_one(s, gw) ==
    IF s.position = None THEN Act(s, <<>>, FALSE)
    ELSE IF s.cfg.dry_run THEN Act(Cleared(s), <<>>, FALSE)
    ELSE IF NoParent(s.parent_order_id) THEN Act(Cleared(s), <<>>, FALSE)
    ELSE LET call == [op |-> "exit_cover_order", symbol |-> s.symbol, side |-> "",
                      trigger_price |-> 0, parent_order_id |-> s.parent_order_id]
             resp == broker_call("exit_cover_order", gw)
         IN IF resp \in {"AttributeError", "raise"}
              THEN \* except Exception: the error is shown, the clearing lines are skipped
                   Act(s, IF resp = "raise" THEN <<call>> ELSE <<>>, FALSE)
              ELSE Act(Cleared(s), <<call>>, FALSE)

RECURSIVE square_off_from(_, _, _, _)
square_off_from(st, ids, i, gw) ==
    IF i > Len(ids) THEN st
    ELSE LET x == square_off_one(st.engines[ids[i]], gw)
         IN square_off_from([engines |-> [st.engines EXCEPT ![ids[i]] = x.s],
                             calls |-> st.calls \o x.calls], ids, i + 1, gw)

\* POST /squareoff
square_off_all(gw) ==
    LET st == square_off_from([engines |-> engines, calls |-> calls], _strategies, 1, gw)
    IN /\ engines' = st.engines
       /\ calls' = st.calls
       /\ UNCHANGED <<stream, inflight, diagVars, recorded, busVars, busHist, _stream, _strategies, _config_overrides, STRAT_DIAG,
                      ws, nstart, clock, px>>

\* POST /squareoff/<symbol>: the first engine of that symbol
square_off_symbol(symbol, gw) ==
    LET hits == {i \in 1..Len(_strategies) : engines[_strategies[i]].symbol = symbol}
    IN IF hits = {} THEN UNCHANGED vars
       ELSE LET i == CHOOSE i \in hits : \A j \in hits : i <= j
                x == square_off_one(engines[_strategies[i]], gw)
            IN /\ engines' = [engines EXCEPT ![_strategies[i]] = x.s]
               /\ calls' = calls \o x.calls
               /\ UNCHANGED <<stream, inflight, diagVars, recorded, busVars, busHist, _stream, _strategies, _config_overrides,
                              STRAT_DIAG, ws, nstart, clock, px>>

\* a value of a request body (JSON or form): its Python type and the value
JBool(b) == [t |-> "bool", v |-> b]
JInt(n) == [t |-> "int", v |-> n]
JFloat(n, d) == [t |-> "float", v |-> <<n, d>>]
JStr(x) == [t |-> "str", v |-> x]
JNull == [t |-> "NoneType", v |-> None]

\* type(base_cfg[k]) for the keys of CONFIG; the other keys hold strings or lists
BoolKeys == {"require_hh_hl_for_long", "require_ll_lh_for_short", "use_vwap_filter",
             "use_best_windows", "dry_run", "log_signals", "log_rejections"}
IntKeys == {"momentum_window", "delta_window", "imbalance_window", "depth_levels",
            "delta_trend_ticks", "vwap_slope_window", "absorption_window",
            "absorption_min_traded_qty", "absorption_max_price_range_bps",
            "skip_first_minutes", "max_tick_jump_bps", "qty", "cooldown_seconds",
            "max_trades_per_session", "time_stop_seconds"}
FloatKeys == {"imbalance_threshold_long", "imbalance_threshold_short", "depth_ratio_min_long",
              "depth_ratio_max_short", "max_spread_pct", "stoploss_pct", "target_pct"}

\* the strings of the request bodies: x.lower(), int(x), float(x); Nil: ValueError
str_lower(x) == CASE x = "TRUE" -> "true" [] x = "BSE" -> "bse" [] OTHER -> x
str_int(x) == CASE x = "6" -> Some(6) [] x = "0" -> Some(0) [] OTHER -> Nil
str_float(x) ==
    CASE x = "6" -> Some(<<6, 1>>) [] x = "0" -> Some(<<0, 1>>) [] x = "1.5" -> Some(<<3, 2>>)
      [] OTHER -> Nil

\* str(v).lower() in ("1", "true", "yes", "on") for a v that is not a bool:
\* str(1) is "1", str(1.0) is "1.0", str(None) is "None"
py_truthy(v) ==
    CASE v.t = "int" -> v.v = 1
      [] v.t = "str" -> str_lower(v.v) \in {"1", "true", "yes", "on"}
      [] OTHER -> FALSE

\* int(v): truncates a float towards zero; Nil: ValueError or TypeError
py_int(v) ==
    CASE v.t = "bool" -> Some(IF v.v THEN 1 ELSE 0)
      [] v.t = "int" -> Some(v.v)
      [] v.t = "float" -> Some(IF v.v[1] >= 0 THEN v.v[1] \div v.v[2]
                                ELSE -((-v.v[1]) \div v.v[2]))
      [] v.t = "str" -> str_int(v.v)
      [] OTHER -> Nil

\* float(v)
py_float(v) ==
    CASE v.t = "bool" -> Some(IF v.v THEN <<1, 1>> ELSE <<0, 1>>)
      [] v.t = "int" -> Some(<<v.v, 1>>)
      [] v.t = "float" -> Some(v.v)
      [] v.t = "str" -> str_float(v.v)
      [] OTHER -> Nil

\* the body of the loop of _coerce_types for one known key: Some(out[k]), or
\* Nil when the cast raised and the key is passed over
coerce(k, v) ==
    IF k \in BoolKeys THEN Some(IF v.t = "bool" THEN v.v ELSE py_truthy(v))
    ELSE IF k \in IntKeys THEN py_int(v)
    ELSE IF k \in FloatKeys THEN py_float(v)
    ELSE Some(v.v)

\* mutant: one failing cast ends the loop and nothing is kept
_coerce_types_all_or_nothing(raw) ==
    LET known == DOMAIN raw \cap DOMAIN CONFIG
    IN IF \E k \in known : coerce(k, raw[k]) = Nil THEN <<>>
       ELSE [k \in known |-> Val(coerce(k, raw[k]))]

\* _coerce_types(base, raw): the keys of raw that CONFIG has and whose value
\* casts to the type of the base value
_coerce_types(raw) ==
    [k \in {x \in DOMAIN raw \cap DOMAIN CONFIG : coerce(x, raw[x]) # Nil} |->
        Val(coerce(k, raw[k]))]

\* mutant: no key counts as structural
rebuild_never(old_ov, new_overrides) == FALSE

\* mutant: the new effective config is also compared with the capacities the
\* running engines were built with
rebuild_against_engines(old_ov, new_overrides) ==
    LET new_eff == _effective_config(dict_update(old_ov, new_overrides))
    IN \/ \E k \in _STRUCTURAL_KEYS : _effective_config(old_ov)[k] # new_eff[k]
       \/ \E e \in DOMAIN engines :
             /\ InStrategies(e)
             /\ \/ engines[e].window_mom # new_eff.momentum_window
                \/ engines[e].window_delta # new_eff.delta_window
                \/ engines[e].window_imb # new_eff.imbalance_window

\* POST /strategy/config: whether the post changes a structural key
rebuild_required(old_ov, new_overrides) ==
    \E k \in _STRUCTURAL_KEYS :
        _effective_config(old_ov)[k] # _effective_config(dict_update(old_ov, new_overrides))[k]

\* what the post leaves and answers when its coerced overrides are
\* new_overrides and `rebuild` is its rebuild_required
config_post_as(new_overrides, rebuild) ==
    [ overrides |-> dict_update(_config_overrides, new_overrides),
      engines |-> IF _strategies # <<>> /\ ~rebuild
                    THEN [e \in DOMAIN engines |->
                            IF InStrategies(e)
                              THEN [engines[e] EXCEPT !.cfg = dict_update(@, new_overrides)]
                              ELSE engines[e]]
                    ELSE engines,
      response |-> [ ok |-> TRUE,
                     rebuild_required |-> rebuild,
                     applied_live |-> _strategies # <<>> /\ ~rebuild,
                     effective |-> _effective_config(dict_update(_config_overrides,
                                                                 new_overrides)) ] ]

config_post_with(new_overrides) ==
    config_post_as(new_overrides, rebuild_required(_config_overrides, new_overrides))

\* POST /strategy/config with body `incoming`: the state it leaves and its answer
strategy_config_post_returns(incoming) == config_post_with(_coerce_types(incoming))

config_posted(r) ==
    /\ _config_overrides' = r.overrides
    /\ engines' = r.engines
    /\ UNCHANGED <<stream, inflight, diagVars, recorded, busVars, busHist, _stream, _strategies,
                   STRAT_DIAG, envVars>>

strategy_config_post(incoming) == config_posted(strategy_config_post_returns(incoming))

\* mutant: the reset also hands the base configuration to the running engines
strategy_config_reset_applies_live ==
    [ overrides |-> <<>>,
      engines |-> [e \in DOMAIN engines |->
                     IF InStrategies(e) THEN [engines[e] EXCEPT !.cfg = CONFIG]
                     ELSE engines[e]],
      response |-> [ok |-> TRUE] ]

\* POST /strategy/config/reset: `_config_overrides = {}`, saved; the state it
\* leaves and its answer
strategy_config_reset_returns ==
    [ overrides |-> <<>>, engines |-> engines, response |-> [ok |-> TRUE] ]

strategy_config_reset == config_posted(strategy_config_reset_returns)

\* ---------------------------------------------------------- the environment
\* module load of web/app.py: nothing streaming, no engines, the overrides
\* read from oflt_overrides.json; the market at its reference prices
Symbols == DOMAIN _sym2tok
Tokens == {_sym2tok[sym] : sym \in Symbols}
RefPrice == 10000
StartClock == 10 * 3600

\* report_diag's state when `hist` is what was recorded so far, no call running
Reporters == {"T1", "T2"}
ReportIdle == [pc |-> "idle", symbol |-> None, diag |-> Nil, dq |-> None]
DiagInit(hist) ==
    /\ STRAT_DIAG = [sym \in DOMAIN hist |-> LastK(hist[sym], DiagCap)]
    /\ recorded = hist
    /\ DIAG_LOCK = "free"
    /\ reporting = [t \in Reporters |-> ReportIdle]

\* the module as loaded at the time `now` with the overrides file ov
AppLoadAt(ov, now) ==
    /\ _stream = Nil
    /\ _strategies = <<>>
    /\ _config_overrides = ov
    /\ engines = <<>>
    /\ ws = {}
    /\ nstart = 0
    /\ clock = now
    /\ px = [t \in Tokens |-> RefPrice]
    /\ calls = <<>>
    /\ inflight = Nil

AppLoad(ov) == AppLoadAt(ov, StartClock)

\* no Stream object has been made
NoStream == stream = Nil

AppInit(ov) == AppLoad(ov) /\ DiagInit(<<>>) /\ NoStream

\* an overrides file that shortens the windows
SmallWindows == [momentum_window |-> 5, delta_window |-> 2, imbalance_window |-> 2,
                 vwap_slope_window |-> 2, absorption_window |-> 3, delta_trend_ticks |-> 2]

\* a FULL-mode tick of the exchange for token tok: the last price moves by dp
\* from the previous one; one depth level a side, `width` apart, the trade at
\* the ask ("buy"), at the bid ("sell") or inside the spread ("mid")
MakeTick(tok, shape) ==
    LET lp == px[tok] + shape.dp
        bid == IF shape.side = "buy" THEN lp - shape.width
               ELSE IF shape.side = "sell" THEN lp
               ELSE lp - shape.width \div 2
        ask == bid + shape.width
    IN [ instrument_token |-> tok,
         last_price |-> Some(lp),
         ltq |-> shape.ltq,
         depth |-> [ buy |-> <<[price |-> bid, quantity |-> shape.bid_qty]>>,
                     sell |-> <<[price |-> ask, quantity |-> shape.ask_qty]>> ] ]

Shape(dp, side, width, bid_qty, ask_qty) ==
    [dp |-> dp, side |-> side, width |-> width, bid_qty |-> bid_qty, ask_qty |-> ask_qty,
     ltq |-> Some(1)]

\* buying and selling pressure, one unit (0.01) up or down, spread 0.02
UpBuy == Shape(1, "buy", 2, 9, 1)
UpSell == Shape(1, "sell", 2, 9, 1)
DownBuy == Shape(-1, "buy", 2, 1, 9)
DownSell == Shape(-1, "sell", 2, 1, 9)

\* ------------------------------------------------------- the specifications
NextBus ==
    \/ subscribe_acquire
    \/ subscribe_append
    \/ \E ticks \in BusBatches : publish_acquire(ticks)
    \/ publish_copy
    \/ publish_call_fn
    \/ publish_return

\* the bus alone, with arbitrary callables subscribed from the control thread
\* or from inside a callable
InitBus == BusInit /\ AppInit(<<>>)

SpecBus == InitBus /\ [][NextBus]_vars

\* overrides files of the runs with one engine: short windows, simulated or live
Profiles == {dict_update(SmallWindows, [dry_run |-> d]) : d \in BOOLEAN}

\* bodies of POST /strategy/config
Posts == {[dry_run |-> JBool(FALSE)], [max_trades_per_session |-> JInt(0)]}

Shapes == {UpBuy, UpSell, DownBuy, DownSell}

Init == BusInit /\ \E ov \in Profiles : AppInit(ov)

FeedStart == nstart = 0 /\ \E outcome \in {"started", "refused"} : feed_start(<<"S1">>, outcome)

FeedStop == feed_stop(TRUE)

Tick ==
    /\ Len(published) < MaxTicks
    /\ \E shape \in Shapes, gw \in GatewayOutcomes : _on_ticks(<<MakeTick(1, shape)>>, 1, gw)

SquareOffAll == \E gw \in GatewayOutcomes : square_off_all(gw)

SquareOffSymbol == \E sym \in Symbols, gw \in GatewayOutcomes : square_off_symbol(sym, gw)

ConfigPost == \E incoming \in Posts : strategy_config_post(incoming)

Next ==
    \/ FeedStart
    \/ FeedStop
    \/ Tick
    \/ SquareOffAll
    \/ SquareOffSymbol
    \/ ConfigPost

\* one feed, one engine, ticks of its symbol, the control routes at any time
Spec == Init /\ [][Next]_vars

\* one feed, one engine; the feed thread inside on_tick while the control
\* thread serves its routes: no lock is taken by either
TickAdmit ==
    /\ Len(published) < MaxTicks
    /\ \E shape \in Shapes : on_tick_admit(MakeTick(1, shape))

TickDecide == \E gw \in GatewayOutcomes : on_tick_decide(gw)

TickTurnedAway ==
    /\ Len(published) < MaxTicks
    /\ Len(_subs) = 2
    /\ \E shape \in Shapes, gw \in GatewayOutcomes :
          /\ ~Admitted(engines[_subs[2].id], MakeTick(1, shape))
          /\ _on_ticks(<<MakeTick(1, shape)>>, 1, gw)

NextRace ==
    \/ FeedStart
    \/ TickTurnedAway
    \/ TickAdmit
    \/ TickDecide
    \/ SquareOffAll
    \/ SquareOffSymbol
    \/ ConfigPost

SpecRace == Init /\ [][NextRace]_vars

\* the feed started, stopped and started again, ticks of both symbols
InitFeed == BusInit /\ AppInit(SmallWindows)

FeedStartAny ==
    /\ nstart < MaxStarts
    /\ \E symbols \in {<<"S1">>, <<"S1", "S2">>}, outcome \in {"started", "refused", "stream_failed"} :
          feed_start(symbols, outcome)

FeedTick ==
    /\ Len(published) < MaxBatches
    /\ \E tok \in Tokens, shape \in {UpBuy, DownSell} :
          _on_ticks(<<MakeTick(tok, shape)>>, 1, "order_id")

NextFeed ==
    \/ FeedStartAny
    \/ FeedStop
    \/ FeedTick

SpecFeed == InitFeed /\ [][NextFeed]_vars

\* one simulated engine with short windows on a rising market: the n-th tick
\* is one unit up with buying pressure and trades n lots at the ask (the
\* per-tick delta grows), or trades one lot, or is a falling tick
InitTrend == BusInit /\ AppInit(dict_update(SmallWindows, [dry_run |-> TRUE]))

TrendShapes(n) == {[UpBuy EXCEPT !.ltq = Some(n)], UpBuy, DownSell}

TrendTick ==
    /\ Len(published) < MaxTrendTicks
    /\ \E shape \in TrendShapes(Len(published) + 1) :
          _on_ticks(<<MakeTick(1, shape)>>, 1, "order_id")

NextTrend ==
    \/ FeedStart
    \/ TrendTick

SpecTrend == InitTrend /\ [][NextTrend]_vars

\* report_diag alone, called from two threads with snapshots that carry the
\* caller and a serial number; S1 has the history of DiagCap - 1 earlier calls
History == [S1 |-> [k \in 1..(DiagCap - 1) |-> [by |-> "T1", n |-> k, symbol |-> "S1"]]]

InitDiag == BusInit /\ AppLoad(<<>>) /\ DiagInit(History) /\ NoStream

ReportsBegun ==
    Len(STRAT_DIAG_get(recorded, "S1")) + Len(STRAT_DIAG_get(recorded, "S2"))
      + Cardinality({t \in Reporters : reporting[t].pc = "lock"})

ReportCall ==
    /\ ReportsBegun < DiagCap - 1 + MaxReports
    /\ \E t \in Reporters, symbol \in Symbols :
          report_diag_call(t, symbol, [by |-> t, n |-> ReportsBegun + 1])

NextDiag ==
    \/ ReportCall
    \/ \E t \in Reporters : report_diag_acquire(t)
    \/ \E t \in Reporters : report_diag_get(t)
    \/ \E t \in Reporters : report_diag_create(t)
    \/ \E t \in Reporters : report_diag_append(t)
    \/ \E t \in Reporters : report_diag_release(t)

SpecDiag == InitDiag /\ [][NextDiag]_vars

\* the feed started and stopped, the websocket closing or failing to close
FeedStopAny == \E closed \in BOOLEAN : feed_stop(closed)

NextStop ==
    \/ FeedStartAny
    \/ FeedStopAny
    \/ FeedTick

SpecStop == InitFeed /\ [][NextStop]_vars

\* one engine with short windows, a few ticks, and bodies of POST
\* /strategy/config of every kind: structural and not, with values of the
\* base type, of other types, strings that parse and strings that do not,
\* null, and a key CONFIG does not have
ConfigBodies == {
    [momentum_window |-> JInt(6)],
    [momentum_window |-> JInt(5), dry_run |-> JStr("TRUE")],
    [momentum_window |-> JStr("abc"), dry_run |-> JBool(FALSE)],
    [momentum_window |-> JFloat(13, 2), qty |-> JNull],
    [delta_window |-> JStr("6"), dry_run |-> JStr("abc")],
    [nonsense |-> JInt(1), qty |-> JStr("6"), target_pct |-> JStr("1.5")],
    [qty |-> JStr("1.5"), target_pct |-> JStr("abc"), exchange |-> JStr("BSE")],
    [max_trades_per_session |-> JBool(TRUE), dry_run |-> JInt(1), target_pct |-> JInt(0)] }

InitConfig == BusInit /\ AppInit(SmallWindows)

ConfigTick ==
    /\ Len(published) < MaxBatches
    /\ \E shape \in {UpBuy, DownSell} : _on_ticks(<<MakeTick(1, shape)>>, 1, "order_id")

ConfigPostAny == \E incoming \in ConfigBodies : strategy_config_post(incoming)

NextConfig ==
    \/ FeedStart
    \/ ConfigTick
    \/ ConfigPostAny

SpecConfig == InitConfig /\ [][NextConfig]_vars

\* ------------------------------------------------------ TickBus properties
\* the publish calls that have returned
Completed == { b \in 1..Len(published) : b < Len(published) \/ pub.pc = "idle" }

\* the callables the b-th publish called, in call order
CalledBy(b) == [k \in 1..Len(recv[b]) |-> recv[b][k].fn]

\* C3: every publish that has returned called exactly the callables whose
\* subscribe had completed when it was called, in registration order, each
\* with the full tick list, whether or not some of them raised; a callable
\* that raised is still called by every later publish.
C3_PublishDeliversToAll ==
    \A b \in Completed :
        /\ CalledBy(b) = SubSeq(subLog, 1, callReg[b])
        /\ \A k \in 1..Len(recv[b]) : recv[b][k].ticks = published[b]

\* a handler raised, a later handler got the same batch, and the handler that
\* raised got the next batch
C3_Witness ==
    \E r \in raises :
        /\ r[1] + 1 \in Completed
        /\ r[2] < Len(recv[r[1]])
        /\ \E k \in 1..Len(recv[r[1] + 1]) : recv[r[1] + 1][k].fn = recv[r[1]][r[2]].fn

\* C4: the lock is not held while handlers run; a callable subscribed while a
\* publish is in progress (or at any time after its copy was taken) is not
\* called for that batch, and is called for every batch published afterwards.
C4_SnapshotUnderShortLock ==
    /\ pub.pc = "loop" => _lock # "feed"
    /\ \A k \in 1..Len(subLog) :
          /\ \A b \in 1..Len(published) :
                b <= subAt[k].n => \A j \in 1..Len(recv[b]) : recv[b][j].fn # subLog[k]
          /\ \A b \in Completed :
                b > subAt[k].n => \E j \in 1..Len(recv[b]) : recv[b][j].fn = subLog[k]

\* a callable was subscribed while a publish was running its handlers, that
\* publish returned without calling it, and the next publish called it
C4_Witness ==
    \E k \in 1..Len(subLog) :
        /\ subAt[k].during
        /\ subAt[k].n + 1 \in Completed
        /\ Len(recv[subAt[k].n]) > 0
        /\ \A j \in 1..Len(recv[subAt[k].n]) : recv[subAt[k].n][j].fn # subLog[k]
        /\ \E j \in 1..Len(recv[subAt[k].n + 1]) : recv[subAt[k].n + 1][j].fn = subLog[k]

\* ------------------------------------------------------- engine properties
\* the snapshots of a symbol that carry an entry decision
EntryDecisions(sym) ==
    {k \in 1..Len(STRAT_DIAG_get(STRAT_DIAG, sym)) : STRAT_DIAG[sym][k].action \in {"ENTER_LONG", "ENTER_SHORT"}}

Held(s, r) ==
    /\ \A k \in 1..Len(r.diags) : r.diags[k].action = "HOLD"
    /\ r.s.position = None
    /\ r.s.trades_taken = s.trades_taken
    /\ ~r.raised

HandlerCalls(b) == {k \in 1..Len(recv[b]) : recv[b][k].fn.kind = "handler"}

\* C2: every engine handler a publish calls belongs to an engine that is in
\* _strategies then (no engine discarded by feed_stop is handed a later
\* batch), and no two engines of one symbol are handed the same batch.
C2_EnginesDestroyedOnStop ==
    \A b \in 1..Len(recv) :
        /\ \A k \in HandlerCalls(b) : recv[b][k].active
        /\ \A j, k \in HandlerCalls(b) :
              engines[recv[b][j].fn.id].symbol = engines[recv[b][k].fn.id].symbol => j = k

\* ------------------------------------------------------ threading properties
\* C5: the control thread's routes are synchronized with the tick an engine
\* is processing: while on_tick is between its filters and its decision, the
\* engine's configuration is the one the tick started with.
C5_ControlSynchronizedWithTick ==
    inflight # Nil => engines[Val(inflight).e].cfg = Val(inflight).cfg

\* ------------------------------------------------------ decision properties
\* every tick so far was for token 1, traded at the ask, with more bid than ask
\* quantity, at a higher price and with a larger traded quantity than the tick before
RisingMarket ==
    \A b \in 1..Len(published) :
        LET t == published[b][1] IN
        /\ t.instrument_token = 1
        /\ Val(t.last_price) >= _best_ask(t.depth)
        /\ _sum_qty(t.depth.buy, 3) >= 2 * _sum_qty(t.depth.sell, 3)
        /\ b > 1 => /\ Val(t.last_price) > Val(published[b - 1][1].last_price)
                    /\ Val(t.ltq) > Val(published[b - 1][1].ltq)

\* C12: a simulated engine fed a strictly rising price with strictly rising
\* delta and long-side pressure decides ENTER_LONG once, and no second
\* ENTER_LONG is recorded before an EXIT
C12_OneEntryPerTrend ==
    RisingMarket =>
    \A sym \in DOMAIN STRAT_DIAG :
        \A i, j \in 1..Len(STRAT_DIAG[sym]) :
            (i < j /\ STRAT_DIAG[sym][i].action = "ENTER_LONG"
                   /\ STRAT_DIAG[sym][j].action = "ENTER_LONG")
            => \E k \in (i + 1)..(j - 1) : STRAT_DIAG[sym][k].action = "EXIT"

\* ------------------------------------------------ configuration properties
\* whether the post answered by r changes the effective value of a structural key
ChangesStructural(r) ==
    \E k \in _STRUCTURAL_KEYS :
        _effective_config(_config_overrides)[k] # _effective_config(r.overrides)[k]

\* C15: a post that changes the effective value of a structural key answers
\* rebuild_required = true and leaves every engine as it was: capacities,
\* window contents and configuration map
C15_StructuralPostLeavesEngines ==
    \A incoming \in ConfigBodies :
        ChangesStructural(strategy_config_post_returns(incoming))
        => /\ strategy_config_post_returns(incoming).response.rebuild_required = TRUE
           /\ strategy_config_post_returns(incoming).response.applied_live = FALSE
           /\ strategy_config_post_returns(incoming).engines = engines

\* a post has changed momentum_window while an engine built with the earlier
\* value was running with ticks in its windows, and the engine kept its own
C15_Witness ==
    \E e \in DOMAIN engines :
        /\ InStrategies(e)
        /\ Len(engines[e].prices) > 0
        /\ _effective_config(_config_overrides).momentum_window = 6
        /\ engines[e].cfg.momentum_window = 5
        /\ engines[e].window_mom = 5

\* whether the post applies key k of its body, and what it leaves for the
\* other keys of the body: the persisted entry and the effective value of before
Applies(incoming, k) == k \in DOMAIN CONFIG /\ coerce(k, incoming[k]) # Nil

Applied(incoming, r, k) ==
    /\ k \in DOMAIN r.overrides
    /\ r.overrides[k] = Val(coerce(k, incoming[k]))
    /\ _effective_config(r.overrides)[k] = Val(coerce(k, incoming[k]))
    /\ r.response.effective[k] = Val(coerce(k, incoming[k]))

EffectiveKept(r, k) ==
    /\ (k \in DOMAIN _effective_config(r.overrides)) = (k \in DOMAIN _effective_config(_config_overrides))
    /\ k \in DOMAIN _effective_config(_config_overrides)
         => _effective_config(r.overrides)[k] = _effective_config(_config_overrides)[k]

EntryKept(r, k) ==
    /\ (k \in DOMAIN r.overrides) = (k \in DOMAIN _config_overrides)
    /\ k \in DOMAIN _config_overrides => r.overrides[k] = _config_overrides[k]

RoundTrip(incoming, r) ==
    /\ r.response.ok = TRUE
    /\ \A k \in DOMAIN incoming :
          IF Applies(incoming, k) THEN Applied(incoming, r, k)
          ELSE EntryKept(r, k) /\ EffectiveKept(r, k)
    /\ \A k \in DOMAIN r.overrides \ DOMAIN incoming : EntryKept(r, k)

\* C16 as stated: after a post, every key of the body that CONFIG has and
\* whose value casts to the base type is persisted and effective with the
\* cast value; every other key of the body is absent from the persisted
\* overrides and its effective value is the one of before; the post answers ok
C16_DroppedKeysAbsent ==
    \A incoming \in ConfigBodies :
        /\ RoundTrip(incoming, strategy_config_post_returns(incoming))
        /\ \A k \in DOMAIN incoming :
              ~Applies(incoming, k)
              => k \notin DOMAIN strategy_config_post_returns(incoming).overrides

\* C16: after a post, every key of the body that CONFIG has and whose value
\* casts to the base type is persisted and effective with the cast value;
\* every other key of the body keeps the persisted entry it had before the
\* post (none when it had none) and its effective value; the keys outside
\* the body keep theirs; the post answers ok
C16_CoercionRoundTrip ==
    \A incoming \in ConfigBodies :
        RoundTrip(incoming, strategy_config_post_returns(incoming))

\* posts have applied "6" to qty, "1.5" to target_pct and "BSE" to exchange,
\* on a running engine too, while the unknown key and the values that do not
\* cast ("1.5" for qty, "abc" for target_pct) left no trace
C16_Witness ==
    /\ {"qty", "target_pct", "exchange"} \subseteq DOMAIN _config_overrides
    /\ "nonsense" \notin DOMAIN _config_overrides
    /\ _config_overrides.qty = 6
    /\ _config_overrides.target_pct = <<3, 2>>
    /\ _config_overrides.exchange = "BSE"
    /\ \E e \in DOMAIN engines :
          /\ InStrategies(e)
          /\ engines[e].cfg.qty = 6
          /\ engines[e].cfg.exchange = "BSE"

\* ------------------------------------------------------ feed stop properties
\* one stop leaves no stream and, when a stream was running, no engines; a
\* second stop right after it leaves the same feed state; neither lets an
\* exception out
Idempotent(once, twice) ==
    /\ once.error = FALSE /\ twice.error = FALSE
    /\ once._stream = Nil
    /\ _stream # Nil => once._strategies = <<>>
    /\ twice._stream = once._stream
    /\ twice._strategies = once._strategies
    /\ twice.ws = once.ws

Updates(s, tick) ==
    /\ Owned(s, tick)
    /\ ~SpreadTooWide(s, tick)
    /\ ~JumpTooBig(s, tick, Val(tick.last_price))

\* `new` is `old` with one value appended, the oldest gone if `old` was full
Pushed(old, new, cap) ==
    /\ Len(new) >= 1
    /\ new = (IF Len(old) >= cap THEN Tail(old) ELSE old) \o <<new[Len(new)]>>

\* what a step does to the windows of an engine: s before, n after
WindowsStep(e, s, n) ==
    /\ n.window_mom = s.window_mom
    /\ n.window_delta = s.window_delta
    /\ n.window_imb = s.window_imb
    /\ Len(n.prices) <= n.window_mom
    /\ Len(n.delta_raw) <= n.window_delta
    /\ Len(n.imbalance_raw) <= n.window_imb
    /\ IF /\ Len(published') > Len(published)
          /\ \E i \in 1..Len(_subs) : _subs[i] = Handler(e)
          /\ Updates(s, published'[Len(published')][1])
         THEN /\ Pushed(s.prices, n.prices, s.window_mom)
              /\ n.prices[Len(n.prices)] = Val(published'[Len(published')][1].last_price)
              /\ Pushed(s.delta_raw, n.delta_raw, s.window_delta)
              /\ Pushed(s.imbalance_raw, n.imbalance_raw, s.window_imb)
         ELSE /\ n.prices = s.prices
              /\ n.delta_raw = s.delta_raw
              /\ n.imbalance_raw = s.imbalance_raw

\* C18: the price, delta and imbalance windows of an engine never hold more
\* than the capacity fixed at construction, and a tick that reaches the
\* rolling updates appends one value to each, evicting exactly the oldest
\* element of a full window and keeping the order of the rest
C18_WindowsFifo ==
    [][\A e \in DOMAIN engines : WindowsStep(e, engines[e], engines'[e])]_vars

\* more ticks than the price window holds have come, and the window is the
\* last window_mom prices in their order; the delta and imbalance windows
\* are full too
C18_Witness ==
    \E e \in DOMAIN engines :
        /\ Len(published) > engines[e].window_mom
        /\ Len(engines[e].prices) = engines[e].window_mom
        /\ \A i \in 1..engines[e].window_mom :
              engines[e].prices[i] =
                  Val(published[Len(published) - engines[e].window_mom + i][1].last_price)
        /\ Len(engines[e].delta_raw) = engines[e].window_delta
        /\ Len(engines[e].imbalance_raw) = engines[e].window_imb

\* ----------------------------------------------------- report_diag properties
\* the snapshots recorded for sym whose append has run: all of them, but for
\* the last when its call is still between taking DIAG_LOCK and appending
Appended(sym, hist) ==
    IF \E t \in Reporters : reporting[t].symbol = sym
                             /\ reporting[t].pc \in {"get", "create", "append"}
      THEN SubSeq(hist, 1, Len(hist) - 1)
      ELSE hist

\* C20: whatever the interleaving of the calls, the history of a symbol holds
\* at most 50 snapshots and is exactly the last 50 of the snapshots recorded
\* for that symbol, in the order of the calls: none lost but by eviction of
\* the oldest, none from another symbol, none out of order
C20_DiagHistory ==
    \A sym \in Symbols :
        /\ Len(STRAT_DIAG_get(STRAT_DIAG, sym)) <= DiagCap
        /\ STRAT_DIAG_get(STRAT_DIAG, sym)
             = LastK(Appended(sym, STRAT_DIAG_get(recorded, sym)), DiagCap)
        /\ \A i \in 1..Len(STRAT_DIAG_get(STRAT_DIAG, sym)) :
              STRAT_DIAG[sym][i].symbol = sym

\* both threads have recorded for S1 past its capacity, one after the other,
\* and one of them for S2, whose history was made by that call: the oldest
\* snapshot of S1 is gone and the two new ones are last, in call order
C20_Witness ==
    /\ \A t \in Reporters : reporting[t].pc = "idle"
    /\ {"S1", "S2"} \subseteq DOMAIN STRAT_DIAG
    /\ Len(recorded["S1"]) = DiagCap + 1
    /\ Len(STRAT_DIAG["S1"]) = DiagCap
    /\ STRAT_DIAG["S1"][1] = recorded["S1"][2]
    /\ STRAT_DIAG["S1"][DiagCap] = recorded["S1"][DiagCap + 1]
    /\ STRAT_DIAG["S1"][DiagCap].by # STRAT_DIAG["S1"][DiagCap - 1].by
    /\ Len(STRAT_DIAG["S2"]) = 1

\* --------------------------------------------------- strategy_diag routes
\* Python's seq[i:] for any integer i: a negative i counts from the end and
\* -0 is 0, the start of the list
slice_from(seq, i) ==
    IF i < 0 THEN SubSeq(seq, Max(1, Len(seq) + i + 1), Len(seq))
    ELSE SubSeq(seq, Min(i, Len(seq)) + 1, Len(seq))

\* GET /strategy/diag?symbol=..&n=..: list(STRAT_DIAG.get(symbol, []))[-n:]
strategy_diag(diag, symbol, n) ==
    [symbol |-> symbol, items |-> slice_from(STRAT_DIAG_get(diag, symbol), -n)]

\* GET /strategy/diag_all: the last snapshot of every symbol whose deque is
\* not empty
strategy_diag_all(diag) ==
    [sym \in {s \in DOMAIN diag : diag[s] # <<>>} |-> diag[sym][Len(diag[sym])]]

\* the symbols a request can name: those of the feed and one never recorded
DiagSymbols == Symbols \cup {"S3"}

\* the last min(n, stored) of the snapshots stored for a symbol, oldest first
LastMin(stored, n) ==
    SubSeq(stored, Len(stored) - Min(n, Len(stored)) + 1, Len(stored))

\* the routes wait for DIAG_LOCK: they read the histories between two
\* report_diag calls
RecentFrom(low) ==
    DiagLockFree(DIAG_LOCK) =>
        \A symbol \in DiagSymbols, n \in low..(DiagCap + 1) :
            strategy_diag(STRAT_DIAG, symbol, n).items
              = LastMin(LastK(STRAT_DIAG_get(recorded, symbol), DiagCap), n)

LatestAll ==
    DiagLockFree(DIAG_LOCK) =>
        /\ DOMAIN strategy_diag_all(STRAT_DIAG)
             = {s \in DiagSymbols : STRAT_DIAG_get(recorded, s) # <<>>}
        /\ \A s \in DOMAIN strategy_diag_all(STRAT_DIAG) :
              strategy_diag_all(STRAT_DIAG)[s] = recorded[s][Len(recorded[s])]

\* C21: for every n >= 0 the diag route returns the last min(n, stored)
\* snapshots of the symbol, oldest first, the empty list for n = 0 and for a
\* symbol never recorded; diag_all returns the latest snapshot of exactly the
\* symbols that have one
C21_RecentAndLatest == RecentFrom(0) /\ LatestAll

\* C21 for n >= 1 only: what the routes do return
C21_RecentPositive == RecentFrom(1) /\ LatestAll

\* S1 is past its capacity and S2 has one snapshot; n = 2 gives the two newest
\* of S1 in call order, n = 0 gives all 50 of them
C21_Witness ==
    /\ DiagLockFree(DIAG_LOCK)
    /\ Len(recorded["S1"]) = DiagCap + 1
    /\ Len(STRAT_DIAG_get(recorded, "S2")) = 1
    /\ strategy_diag(STRAT_DIAG, "S1", 2).items
         = <<recorded["S1"][DiagCap], recorded["S1"][DiagCap + 1]>>
    /\ Len(strategy_diag(STRAT_DIAG, "S1", 0).items) = DiagCap
    /\ strategy_diag(STRAT_DIAG, "S3", 5).items = <<>>
    /\ DOMAIN strategy_diag_all(STRAT_DIAG) = {"S1", "S2"}

\* ------------------------------------------------ two engines on one feed
MaxPairBatches == 6

\* both symbols started together; every batch carries one tick of each: the
\* n-th is a rising tick that trades n lots at the ask, or a falling tick
PairStart ==
    /\ nstart = 0
    /\ \E outcome \in {"started", "refused"} : feed_start(<<"S1", "S2">>, outcome)

PairShapes(n) == {[UpBuy EXCEPT !.ltq = Some(n)], DownSell}

PairTick ==
    /\ Len(published) < MaxPairBatches
    /\ \E a \in PairShapes(Len(published) + 1), b \in PairShapes(Len(published) + 1) :
          _on_ticks(<<MakeTick(1, a), MakeTick(2, b)>>, 1, "order_id")

NextPair ==
    \/ PairStart
    \/ PairTick

SpecPair == InitTrend /\ [][NextPair]_vars

\* the batch published by this step reached every subscribed callable, in
\* subscription order, and every engine is where its handler leaves it
Delivered(batch, got) ==
    /\ Len(got) = Len(_subs)
    /\ \A k \in 1..Len(_subs) :
          /\ got[k].fn = _subs[k]
          /\ got[k].ticks = batch
          /\ _subs[k].kind = "handler" =>
                engines'[_subs[k].id]
                  = handler(engines[_subs[k].id], batch, clock, "order_id").s

\* C22: when an engine raises while handling a batch, every other engine
\* subscribed to the bus is still called with that batch and processes it,
\* and so for every later batch: the publish call always runs to its end
C22_RaiseIsolated ==
    [][published' # published =>
          Delivered(published'[Len(published')], recv'[Len(recv')])]_vars

\* S1's engine raised on the fifth batch (its entry) while S2's engine, called
\* after it with the same batch, did not and recorded its evaluation; the
\* sixth batch reached both again
C22_Witness ==
    /\ Len(published) = 6
    /\ <<5, 2>> \in raises /\ <<5, 3>> \notin raises
    /\ recv[5][3].fn = Handler(2) /\ recv[5][3].ticks = published[5]
    /\ Len(recv[6]) = 3
    /\ Len(engines[2].prices) = 5
    /\ Len(STRAT_DIAG_get(recorded, "S2")) = 2

\* --------------------------------------------------------- the Stream alone
\* a Stream made by a caller of its own, for token lists that fill no chunk,
\* one chunk exactly, and three chunks, some with duplicates and out of order
TokenLists == {<<>>, <<3, 1, 2, 3>>, Interval(1, 400), Interval(1, 801), Interval(401, 1201)}

Modes == {None, "FULL", "ltp"}

\* the chunks whose kws.subscribe raises: none, the second, the first two, all
ChunkFailures == {{}, {2}, {1, 2}, {1, 2, 3}}

InitStream ==
    /\ BusInit /\ AppLoad(<<>>) /\ DiagInit(<<>>)
    /\ \E toks \in TokenLists, mode \in Modes : stream = Some(Stream(toks, mode))

\* a method or callback of the Stream ran and left it as st
stream_becomes(st) ==
    /\ stream' = Some(st)
    /\ UNCHANGED <<busVars, busHist, appVars, envVars, inflight, diagVars, recorded>>

StreamStart ==
    /\ Val(stream).conn = "DISCONNECTED"
    /\ stream_becomes(Stream_start(Val(stream)))

StreamConnected ==
    /\ Val(stream).conn \in {"CONNECTING", "RECONNECTING"}
    /\ \E fails \in ChunkFailures, mode_raises \in BOOLEAN :
          stream_becomes(_on_connect(Val(stream), fails, mode_raises))

StreamDropped ==
    /\ Val(stream).conn = "CONNECTED"
    /\ stream_becomes(_on_close(Val(stream)))

\* update_tokens called while the Stream is connected
StreamUpdateTokens ==
    /\ Val(stream).conn = "CONNECTED"
    /\ \E new_tokens \in TokenLists, unsub_raises \in BOOLEAN, fails \in ChunkFailures :
          stream_becomes(update_tokens(Val(stream), new_tokens, unsub_raises, fails))

NextStream ==
    \/ StreamStart
    \/ StreamConnected
    \/ StreamDropped
    \/ StreamUpdateTokens

SpecStream == InitStream /\ [][NextStream]_vars

\* ------------------------------------------------------- Stream properties
\* the calls of one kind among those a method issued
Issued(st, op) == SelectSeq(st.issued, LAMBDA c : c.op = op)

\* the tokens of a list of calls, in the order sent
RECURSIVE Sent(_)
Sent(cs) == IF cs = <<>> THEN <<>> ELSE Head(cs).tokens \o Sent(Tail(cs))

\* the calls carry exactly the tokens of S, each once
SendsExactly(cs, S) == set(Sent(cs)) = S /\ Len(Sent(cs)) = Cardinality(S)

Chunked(cs) == \A k \in DOMAIN cs : Len(cs[k].tokens) \in 1..chunk_size

\* the call update_tokens(new) that took the Stream from st to r
UpdatesExactly(st, new, r) ==
    /\ \A k \in DOMAIN r.issued : r.issued[k].op \in {"subscribe", "unsubscribe"}
    /\ Len(Issued(r, "unsubscribe")) <= 1
    /\ SendsExactly(Issued(r, "unsubscribe"), set(st.tokens) \ set(new))
    /\ SendsExactly(Issued(r, "subscribe"), set(new) \ set(st.tokens))
    /\ Chunked(Issued(r, "subscribe"))
    /\ set(r.tokens) = set(new) /\ Len(r.tokens) = Cardinality(set(new))
    /\ \A again \in {update_tokens(r, new, TRUE, {1, 2, 3})} :
          again.issued = <<>> /\ again.logged = <<>> /\ again.tokens = r.tokens

\* C23: update_tokens unsubscribes exactly the tokens tracked and not in the
\* new set, subscribes in chunks exactly the tokens of the new set not
\* tracked, sends nothing for the tokens in both and leaves the new set
\* tracked; called again with the same set it sends nothing
C23_UpdateTokens ==
    [][(stream # Nil /\ stream' # Nil /\ Val(stream').args # Nil)
         => UpdatesExactly(Val(stream), Val(Val(stream').args), Val(stream'))]_vars

\* the tokens 1..400 were replaced by 401..1201: one unsubscribe of 400 tokens,
\* then the 801 new ones in three chunks, the second of which raised
C23_Witness ==
    /\ stream # Nil
    /\ Val(stream).tokens = Interval(401, 1201)
    /\ Len(Val(stream).issued) = 4
    /\ Val(stream).issued[1] = KwsCall("unsubscribe", None, Interval(1, 400), FALSE)
    /\ Val(stream).issued[3] = KwsCall("subscribe", None, Interval(801, 1200), TRUE)
    /\ Val(stream).issued[4] = KwsCall("subscribe", None, <<1201>>, FALSE)

\* what a connection-established event sent for the tracked tokens
ConnectedAs(st) ==
    /\ st.issued # <<>>
    /\ Issued(st, "subscribe") = SubSeq(st.issued, 1, Len(st.issued) - 1)
    /\ Chunked(Issued(st, "subscribe"))
    /\ Sent(Issued(st, "subscribe")) = st.tokens
    /\ st.issued[Len(st.issued)].op = "set_mode"
    /\ st.issued[Len(st.issued)].tokens = st.tokens
    /\ st.issued[Len(st.issued)].mode = IF st.mode = "FULL" THEN "MODE_FULL" ELSE "MODE_LTP"

\* C24: whenever the connection is established, the first time or after a
\* reconnect, the tracked tokens are subscribed in order in chunks of at most
\* 400, each token in one chunk, whichever chunks fail, and the mode is then
\* set once for all the tracked tokens
C24_ConnectSubscribesAll ==
    [][(stream' # Nil /\ Val(stream').conn = "CONNECTED"
          /\ (stream = Nil \/ Val(stream).conn # "CONNECTED"))
        => ConnectedAs(Val(stream'))]_vars

\* a connection of a Stream tracking 801 tokens in price-only mode: three
\* chunks, the first two raised, the third was sent all the same, then the mode
C24_Witness ==
    /\ stream # Nil
    /\ Val(stream).conn = "CONNECTED"
    /\ Val(stream).mode = "LTP"
    /\ Val(stream).tokens = Interval(1, 801)
    /\ Len(Val(stream).issued) = 4
    /\ Val(stream).issued[1].raised /\ Val(stream).issued[2].raised
    /\ Val(stream).issued[3] = KwsCall("subscribe", None, <<801>>, FALSE)
    /\ Val(stream).issued[4] = KwsCall("set_mode", "MODE_LTP", Interval(1, 801), FALSE)

\* ------------------------------------------------- the feed's connection
\* GET /feed/status: running = _stream is not None (the panel's last prices
\* and timestamps are not modelled)
feed_status == [running |-> _stream # Nil]

\* what the KiteTicker of the running Stream does on its own thread leaves
\* the Stream as st and the websockets open as open
kws_event(st, open) ==
    /\ stream' = Some(st)
    /\ ws' = open
    /\ UNCHANGED <<busVars, busHist, appVars, nstart, clock, px, calls, inflight, diagVars,
                   recorded>>

\* the connection is lost: on_close / on_error, and the KiteTicker begins to
\* reconnect
ConnDropped ==
    /\ _stream # Nil
    /\ Val(stream).conn = "CONNECTED"
    /\ kws_event(_on_close(Val(stream)), ws \ {Val(_stream)})

\* one more attempt of the reconnect budget: on_reconnect(attempt_count)
ConnReconnecting ==
    /\ _stream # Nil
    /\ Val(stream).conn = "RECONNECTING"
    /\ Val(stream).attempts < Val(stream).retries
    /\ kws_event(_on_reconnect(Val(stream), Val(stream).attempts + 1), ws)

\* an attempt succeeded: on_connect
ConnReconnected ==
    /\ _stream # Nil
    /\ Val(stream).conn = "RECONNECTING"
    /\ Val(stream).attempts >= 1
    /\ kws_event(_on_connect(Val(stream), {}, FALSE), ws \cup {Val(_stream)})

\* the budget is used up: on_noreconnect
ConnNoReconnect ==
    /\ _stream # Nil
    /\ Val(stream).conn = "RECONNECTING"
    /\ Val(stream).attempts = Val(stream).retries
    /\ kws_event(_on_noreconnect(Val(stream)), ws)

NextReconnect ==
    \/ FeedStart
    \/ FeedStop
    \/ FeedTick
    \/ ConnDropped
    \/ ConnReconnecting
    \/ ConnReconnected
    \/ ConnNoReconnect

SpecReconnect == InitFeed /\ [][NextReconnect]_vars

\* the operator is told: the status route no longer reports the feed as
\* running, or the callback has logged the error
Surfaced(st) ==
    \/ ~feed_status.running
    \/ "WS will NOT reconnect further (max retries hit)" \in set(st.logged)

GaveUp(st) == st.conn = "NO_RECONNECT"

\* the step that gives up, from st to r
GivesUp(st, r) ==
    /\ st.attempts = reconnect_retries
    /\ Surfaced(r)
    /\ UNCHANGED <<busVars, busHist, appVars, calls, inflight>>

Built(s, k) ==
    CASE k = "momentum_window" -> s.window_mom
      [] k = "delta_window" -> s.window_delta
      [] k = "imbalance_window" -> s.window_imb
      [] k = "depth_levels" -> s.depth_levels
      [] k = "absorption_window" -> s.abs_maxlen
      [] k = "vwap_slope_window" -> s.vwap_maxlen
      [] OTHER -> s.cfg[k]

\* the post with body `incoming` answered with r: its coerced keys among
\* `keys` are in the configuration of every running engine and are the values
\* the engine works with
LiveApplied(incoming, r, keys) ==
    IF _strategies = <<>> THEN r.response.applied_live = FALSE
    ELSE ~ChangesStructural(r) =>
           /\ r.response.applied_live = TRUE
           /\ r.response.rebuild_required = FALSE
           /\ \A e \in DOMAIN engines, k \in DOMAIN incoming \cap keys :
                 InStrategies(e) /\ Applies(incoming, k)
                 => /\ r.engines[e].cfg[k] = Val(coerce(k, incoming[k]))
                    /\ Built(r.engines[e], k) = Val(coerce(k, incoming[k]))

\* C26: a post that changes no structural key while engines are running puts
\* every coerced key of its body into the configuration of every running
\* engine, answers applied_live = true and rebuild_required = false, and the
\* engines work with the new values from then on; with no engine running
\* the answer is applied_live = false
C26_LiveApply ==
    \A incoming \in ConfigBodies :
        LiveApplied(incoming, strategy_config_post_returns(incoming), DOMAIN CONFIG)

\* C26 for the keys that are not structural
C26_LiveApplyNonStructural ==
    \A incoming \in ConfigBodies :
        LiveApplied(incoming, strategy_config_post_returns(incoming),
                    DOMAIN CONFIG \ _STRUCTURAL_KEYS)

\* momentum_window = 6 was posted twice to a running engine built with 5: the
\* second post was applied live, the engine's configuration says 6 and its
\* price window still holds 5
C26_Witness ==
    \E e \in DOMAIN engines :
        /\ InStrategies(e)
        /\ engines[e].cfg.momentum_window = 6
        /\ _config_overrides.momentum_window = 6
        /\ engines[e].window_mom = 5

\* ------------------------------------------------------- entry properties
\* the step recorded an entry decision for sym
Entering(sym) ==
    /\ Len(STRAT_DIAG_get(recorded', sym)) > Len(STRAT_DIAG_get(recorded, sym))
    /\ recorded'[sym][Len(recorded'[sym])].action \in {"ENTER_LONG", "ENTER_SHORT"}

\* the entry of engine e on the tick just published went through
EntryCompleted(e, decided, tick) ==
    /\ raises' = raises
    /\ engines'[e].position = IF decided.action = "ENTER_LONG" THEN "LONG" ELSE "SHORT"
    /\ engines'[e].entry_price = tick.last_price
    /\ engines'[e].parent_order_id # None
    /\ engines'[e].last_entry_ts # Nil
    /\ engines'[e].trades_taken = engines[e].trades_taken + 1

\* C27: when a flat, warmed-up engine with dry_run true decides ENTER_LONG or
\* ENTER_SHORT, the entry raises nothing and leaves the position LONG or
\* SHORT, the entry price at the tick's last price, a parent order id, the
\* last-entry time set and the trade count one higher
C27_EntryCompletes ==
    [][\A e \in DOMAIN engines :
          (engines[e].cfg.dry_run /\ engines[e].position = None
             /\ Entering(engines[e].symbol))
          => EntryCompleted(e, recorded'[engines[e].symbol][Len(recorded'[engines[e].symbol])],
                            published'[Len(published')][1])]_vars

\* a simulated engine has decided ENTER_LONG on the fifth rising tick: the
\* handler raised, and the engine is flat with no trade counted
C27_Witness ==
    /\ Len(published) = 5
    /\ <<5, 2>> \in raises
    /\ engines[1].cfg.dry_run
    /\ recorded["S1"][Len(recorded["S1"])].action = "ENTER_LONG"
    /\ engines[1].position = None
    /\ engines[1].entry_price = Nil
    /\ engines[1].parent_order_id = None
    /\ engines[1].last_entry_ts = Nil
    /\ engines[1].trades_taken = 0


\* ------------------------------------------------- the filters of on_tick
\* ticks of every kind the filters tell apart: a calm one, a jump of 11 bps
\* with and without market depth, a spread of 8 bps, a tick of another
\* instrument, a tick without a last price
MaxFilterTicks == 6

JumpUp == Shape(11, "buy", 2, 9, 1)
WideUp == Shape(1, "buy", 8, 9, 1)

\* a tick that carries no depth (an LTP-mode packet, an empty book)
NoDepth(tick) == [tick EXCEPT !.depth = [buy |-> <<>>, sell |-> <<>>]]

FilterTicks ==
    {MakeTick(1, UpBuy), MakeTick(1, JumpUp), MakeTick(1, WideUp),
     NoDepth(MakeTick(1, JumpUp)), MakeTick(2, UpBuy),
     [MakeTick(1, UpBuy) EXCEPT !.last_price = Nil]}

FilterTick ==
    /\ Len(published) < MaxFilterTicks
    /\ \E tick \in FilterTicks : _on_ticks(<<tick>>, 1, "order_id")

NextFilter ==
    \/ FeedStart
    \/ FilterTick

SpecFilter == InitTrend /\ [][NextFilter]_vars

\* the tick of the one-tick batch this step published, and whether the handler
\* of engine e was called with it
TickPublished == published'[Len(published')][1]

HandlerCalled(e) ==
    /\ published' # published
    /\ e \in DOMAIN engines
    /\ \E i \in 1..Len(_subs) : _subs[i] = Handler(e)

\* the rolling state of on_tick is the same in s and n
SameWindows(s, n) ==
    /\ n.prices = s.prices
    /\ n.delta_raw = s.delta_raw
    /\ n.imbalance_raw = s.imbalance_raw
    /\ n.abs_range_prices = s.abs_range_prices
    /\ n.abs_qty = s.abs_qty
    /\ n.cum_pv = s.cum_pv
    /\ n.cum_v = s.cum_v
    /\ n.vwap_history = s.vwap_history
    /\ n.trades_taken = s.trades_taken
    /\ n.last_entry_ts = s.last_entry_ts

\* the tick is the engine's, is not rejected for its spread, and moves the
\* price by more than max_tick_jump_bps from the last accepted one
Jumped(s, tick) ==
    /\ Owned(s, tick)
    /\ ~SpreadTooWide(s, tick)
    /\ s.prices # <<>>
    /\ RLt(<<s.cfg.max_tick_jump_bps, 1>>, jump_bps(s, Val(tick.last_price)))

\* the step reported one snapshot for the engine, a HOLD with jump_ok false
JumpReported(sym) ==
    /\ Len(STRAT_DIAG_get(recorded', sym)) = Len(STRAT_DIAG_get(recorded, sym)) + 1
    /\ recorded'[sym][Len(recorded'[sym])].action = "HOLD"
    /\ recorded'[sym][Len(recorded'[sym])].jump_ok = "False"

\* C28: a tick that passed the spread check while a previous accepted price
\* exists, with or without best bid and best ask, and that moves the price by
\* more than max_tick_jump_bps is rejected: a HOLD snapshot with jump_ok false,
\* no rolling update; an engine in a position is flat afterwards when the move
\* is more than twice the threshold
C28_JumpRejected ==
    [][\A e \in DOMAIN engines :
          HandlerCalled(e) /\ Jumped(engines[e], TickPublished) =>
             /\ JumpReported(engines[e].symbol)
             /\ SameWindows(engines[e], engines'[e])
             /\ (engines[e].position # None
                   /\ RLt(<<2 * engines[e].cfg.max_tick_jump_bps, 1>>,
                          jump_bps(engines[e], Val(TickPublished.last_price)))
                 => engines'[e].position = None)]_vars

\* the same for the ticks that carry both a best bid and a best ask
C28_JumpRejectedWithDepth ==
    [][\A e \in DOMAIN engines :
          HandlerCalled(e) /\ Jumped(engines[e], TickPublished) /\ BothSides(TickPublished) =>
             /\ JumpReported(engines[e].symbol)
             /\ SameWindows(engines[e], engines'[e])
             /\ (engines[e].position # None
                   /\ RLt(<<2 * engines[e].cfg.max_tick_jump_bps, 1>>,
                          jump_bps(engines[e], Val(TickPublished.last_price)))
                 => engines'[e].position = None)]_vars

\* a tick without depth took the price window from 100.01 to 100.12, a move
\* of 11 bps, and nothing was reported
C28_Witness ==
    /\ engines # <<>>
    /\ engines[1].position = None
    /\ Len(engines[1].prices) >= 2
    /\ LET p == engines[1].prices
       IN RLt(<<engines[1].cfg.max_tick_jump_bps, 1>>,
              <<Abs(p[Len(p)] - p[Len(p) - 1]) * 10000, p[Len(p) - 1]>>)
    /\ published # <<>>
    /\ ~BothSides(published[Len(published)][1])
    /\ STRAT_DIAG_get(recorded, "S1") = <<>>


\* the tick passed the filters: every window and the VWAP history took one
\* element, the oldest dropped from a window that was full, and the VWAP
\* accumulators took the tick's price and quantity
OneAppended(s, n, tick) ==
    /\ Pushed(s.prices, n.prices, s.window_mom)
    /\ n.prices[Len(n.prices)] = Val(tick.last_price)
    /\ Pushed(s.delta_raw, n.delta_raw, s.window_delta)
    /\ Pushed(s.imbalance_raw, n.imbalance_raw, s.window_imb)
    /\ Pushed(s.abs_range_prices, n.abs_range_prices, s.abs_maxlen)
    /\ Pushed(s.abs_qty, n.abs_qty, s.abs_maxlen)
    /\ Pushed(s.vwap_history, n.vwap_history, s.vwap_maxlen)
    /\ n.cum_v > s.cum_v
    /\ n.cum_pv = s.cum_pv + Val(tick.last_price) * (n.cum_v - s.cum_v)

\* C29: a tick discarded by the ownership check (foreign instrument, no
\* parseable last price) or rejected by the spread or the jump filter leaves
\* the price, delta, imbalance and absorption windows, the VWAP accumulators
\* and history, the trade count and the last-entry time unchanged; a tick that
\* passes them appends exactly one element to each window and to the VWAP
\* history
C29_RollingAfterFilters ==
    [][\A e \in DOMAIN engines :
          HandlerCalled(e) =>
             IF Updates(engines[e], TickPublished)
               THEN OneAppended(engines[e], engines'[e], TickPublished)
               ELSE SameWindows(engines[e], engines'[e])]_vars

\* the engine has been through a foreign tick, a tick without a price, a
\* rejected spread and a rejected jump, and holds the two ticks that passed
C29_Witness ==
    /\ engines # <<>>
    /\ Len(published) = 6
    /\ Len(engines[1].prices) = 2
    /\ Len(engines[1].vwap_history) = 2
    /\ \E i \in 1..6 : published[i][1].instrument_token # 1
    /\ \E i \in 1..6 : published[i][1].last_price = Nil
    /\ LET rec == STRAT_DIAG_get(recorded, engines[1].symbol)
       IN /\ \E i \in 1..Len(rec) : rec[i].spread_ok = "False"
          /\ \E i \in 1..Len(rec) : rec[i].jump_ok = "False"


\* ------------------------------------------------------------ the warm-up
\* engines built with momentum windows of 3, 5 and 6 and delta and imbalance
\* windows of 2 and 6, fed calm ticks and ticks with a wide spread
MaxWarmTicks == 7

WarmProfiles ==
    {dict_update(SmallWindows, [dry_run |-> TRUE, momentum_window |-> w[1],
                                delta_window |-> w[2][1], imbalance_window |-> w[2][2]]) :
       w \in {3, 5, 6} \X {<<2, 2>>, <<6, 2>>, <<2, 6>>}}

InitWarm == BusInit /\ \E ov \in WarmProfiles : AppInit(ov)

WarmTick ==
    /\ Len(published) < MaxWarmTicks
    /\ \E shape \in {[UpBuy EXCEPT !.ltq = Some(Len(published) + 1)], DownSell, WideUp} :
          _on_ticks(<<MakeTick(1, shape)>>, 1, "order_id")

NextWarm ==
    \/ FeedStart
    \/ WarmTick

SpecWarm == InitWarm /\ [][NextWarm]_vars

\* the price, delta and imbalance windows of the engine all hold as many
\* elements as configured
AtCapacity(n) ==
    /\ Len(n.prices) >= n.cfg.momentum_window
    /\ Len(n.delta_raw) >= n.cfg.delta_window
    /\ Len(n.imbalance_raw) >= n.cfg.imbalance_window

\* on_tick went past line 147 for an accepted tick: a flat engine reports one
\* snapshot on every path through lines 149-272
Evaluated(sym) == Len(STRAT_DIAG_get(recorded', sym)) > Len(STRAT_DIAG_get(recorded, sym))

\* C30: for every configured momentum_window, delta_window and
\* imbalance_window, an accepted tick is left unevaluated (no snapshot, no
\* entry, no exit) exactly while one of the three windows holds fewer elements
\* than configured; once all three are full every accepted tick is evaluated
C30_WarmUpGate ==
    [][\A e \in DOMAIN engines :
          (HandlerCalled(e) /\ Updates(engines[e], TickPublished)
             /\ engines[e].position = None)
          => (Evaluated(engines[e].symbol) <=> AtCapacity(engines'[e]))]_vars

\* the same for the engines with a momentum_window of five or more
C30_WarmUpGateFromFive ==
    [][\A e \in DOMAIN engines :
          (HandlerCalled(e) /\ Updates(engines[e], TickPublished)
             /\ engines[e].position = None /\ engines[e].cfg.momentum_window >= 5)
          => (Evaluated(engines[e].symbol) <=> AtCapacity(engines'[e]))]_vars

\* an engine with momentum_window 3 has been called with seven ticks, its
\* three windows are full, and it has evaluated none of them
C30_Witness ==
    /\ engines # <<>>
    /\ engines[1].cfg.momentum_window = 3
    /\ Len(published) = 7
    /\ engines[1].cum_v >= 7
    /\ AtCapacity(engines[1])
    /\ STRAT_DIAG_get(recorded, engines[1].symbol) = <<>>


\* ------------------------------------------------------ the session filters
\* an engine started before the session opens, with and without the best
\* windows, fed rising ticks at the times around every boundary of the
\* session filters
MaxSessionTicks == 8

HMS(h, m, sec) == (h * 60 + m) * 60 + sec

SessionClocks ==
    {HMS(9, 14, 59), HMS(9, 19, 59), HMS(13, 14, 59), HMS(13, 29, 59),
     HMS(14, 44, 59)}

SessionProfiles ==
    {dict_update(SmallWindows, [dry_run |-> TRUE, use_best_windows |-> b]) : b \in BOOLEAN}

InitSession ==
    /\ BusInit
    /\ \E ov \in SessionProfiles : AppLoadAt(ov, HMS(9, 14, 0))
    /\ DiagInit(<<>>)
    /\ NoStream

\* time passes without a tick
SessionWait ==
    /\ \E t \in SessionClocks : t > clock /\ clock' = t
    /\ UNCHANGED <<busVars, busHist, appVars, ws, nstart, px, calls, inflight, diagVars,
                   recorded, stream>>

SessionTick ==
    /\ Len(published) < MaxSessionTicks
    /\ _on_ticks(<<MakeTick(1, [UpBuy EXCEPT !.ltq = Some(Len(published) + 1)])>>, 1,
                 "order_id")

NextSession ==
    \/ FeedStart
    \/ SessionWait
    \/ SessionTick

SpecSession == InitSession /\ [][NextSession]_vars

\* the time `now` is within the first skip_first_minutes after 09:15, inside
\* [lunch_skip_start, lunch_skip_end), or, with use_best_windows, in none of
\* the best windows [from, to)
Blackout(cfg, now) ==
    \/ MarketOpen <= now /\ now < MarketOpen + cfg.skip_first_minutes * 60
    \/ HHMM(cfg.lunch_skip_start) <= MinuteOfDay(now)
         /\ MinuteOfDay(now) < HHMM(cfg.lunch_skip_end)
    \/ cfg.use_best_windows
         /\ \A i \in 1..Len(cfg.best_windows) :
               \/ MinuteOfDay(now) < HHMM(cfg.best_windows[i][1])
               \/ MinuteOfDay(now) >= HHMM(cfg.best_windows[i][2])

\* the step reported one snapshot for the symbol, a HOLD with session_ok false
SessionHeld(sym) ==
    /\ Len(STRAT_DIAG_get(recorded', sym)) = Len(STRAT_DIAG_get(recorded, sym)) + 1
    /\ recorded'[sym][Len(recorded'[sym])].action = "HOLD"
    /\ recorded'[sym][Len(recorded'[sym])].session_ok = "False"

FarFromAccepted(s, lp) ==
    /\ s.prices # <<>>
    /\ RLt(<<s.cfg.max_tick_jump_bps, 1>>,
           <<Abs(lp - s.prices[Len(s.prices)]) * 10000, s.prices[Len(s.prices)]>>)

\* the step reported one snapshot for the symbol, a HOLD of the spread or the
\* jump filter, and so evaluated nothing
FilterHeld(sym) ==
    /\ Len(STRAT_DIAG_get(recorded', sym)) = Len(STRAT_DIAG_get(recorded, sym)) + 1
    /\ recorded'[sym][Len(recorded'[sym])].action = "HOLD"
    /\ recorded'[sym][Len(recorded'[sym])].session_ok = None
    /\ \/ recorded'[sym][Len(recorded'[sym])].jump_ok = "False"
       \/ recorded'[sym][Len(recorded'[sym])].spread_ok = "False"

AgainstPersisted(incoming, r) ==
    /\ r.response.rebuild_required = ChangesStructural(r)
    /\ (~ChangesStructural(r) /\ _strategies # <<>>)
       => /\ r.response.applied_live = TRUE
          /\ \A e \in DOMAIN engines :
                InStrategies(e)
                => /\ \A k \in _STRUCTURAL_KEYS : Built(r.engines[e], k) = Built(engines[e], k)
                   /\ \A k \in DOMAIN incoming \cap _STRUCTURAL_KEYS :
                         Applies(incoming, k)
                         => r.engines[e].cfg[k] = Val(coerce(k, incoming[k]))

MaxResetTicks == 5

ResetStart == nstart < MaxStarts /\ feed_start(<<"S1">>, "started")

ResetTick ==
    /\ Len(published) < MaxResetTicks
    /\ _on_ticks(<<MakeTick(1, [UpBuy EXCEPT !.ltq = Some(Len(published) + 1)])>>, 1,
                 "order_id")

ConfigReset == strategy_config_reset

NextReset ==
    \/ ResetStart
    \/ FeedStop
    \/ ResetTick
    \/ ConfigPost
    \/ ConfigReset

SpecReset == InitConfig /\ [][NextReset]_vars

\* the step cleared a non-empty override map
OverridesCleared == DOMAIN _config_overrides # {} /\ DOMAIN _config_overrides' = {}

\* C39: a reset empties the persisted overrides, so that the effective config
\* is the base CONFIG for every key, and leaves every engine as it was,
\* configuration map included; the running engines go through the ticks after
\* it with the configuration they had, and only the engines built by a later
\* feed start get the base values
C39_ResetLeavesEngines ==
    [][/\ OverridesCleared
          => /\ _effective_config(_config_overrides') = CONFIG
             /\ engines' = engines
             /\ _strategies' = _strategies
       /\ published' # published
          => \A e \in DOMAIN engines :
                /\ engines'[e].cfg = engines[e].cfg
                /\ \A k \in _STRUCTURAL_KEYS : Built(engines'[e], k) = Built(engines[e], k)
       /\ \A e \in DOMAIN engines' \ DOMAIN engines :
             engines'[e].cfg = _effective_config(_config_overrides)]_vars

\* the overrides are empty and momentum_window is 20 again, while the running
\* engine, built with 5 and switched to dry_run false by a post, has filled
\* its window of 5 and evaluated a tick with those values
C39_Witness ==
    \E e \in DOMAIN engines :
        /\ InStrategies(e)
        /\ DOMAIN _config_overrides = {}
        /\ _effective_config(_config_overrides).momentum_window = 20
        /\ engines[e].cfg.momentum_window = 5
        /\ engines[e].cfg.dry_run = FALSE
        /\ Len(engines[e].prices) = 5
        /\ STRAT_DIAG_get(recorded, engines[e].symbol) # <<>>


\* ------------------------------------------------- batches of several ticks
\* batches of two ticks of one instrument, the second following the first
MaxTwoTickBatches == 4

TwoTicks(a, b) == <<MakeTick(1, a), MakeTick(1, [b EXCEPT !.dp = a.dp + b.dp])>>

TwoTickBatch ==
    /\ Len(published) < MaxTwoTickBatches
    /\ \E a \in {[UpBuy EXCEPT !.ltq = Some(2 * Len(published) + 1)], DownSell},
          b \in {[UpBuy EXCEPT !.ltq = Some(2 * Len(published) + 2)], DownSell} :
          _on_ticks(TwoTicks(a, b), 1, "order_id")

NextBatch ==
    \/ FeedStart
    \/ TwoTickBatch

SpecBatch == InitTrend /\ [][NextBatch]_vars

\* what the handler of an engine does with a batch of two ticks: s before,
\* n after, `first` the result of on_tick for the first tick, `caught` whether
\* the publisher caught an exception of the handler
BatchHandled(s, n, first, batch, caught) ==
    IF first.raised
      THEN /\ n = first.s
           /\ SameWindows(first.s, n)
           /\ caught
      ELSE /\ Updates(first.s, batch[2])
           /\ OneAppended(first.s, n, batch[2])
           /\ caught = on_tick(first.s, batch[2], clock, "order_id").raised

\* the publisher caught an exception of the handler of engine e in this step
RaiseLogged(e) ==
    \E k \in 1..Len(_subs) : <<Len(published'), k>> \in raises' /\ _subs[k] = Handler(e)

\* C40: the handler of an engine goes through the ticks of a batch in order
\* and catches nothing: when on_tick raises on a tick, the engine is left as
\* that call left it and the ticks after it in the batch do not reach its
\* windows; the publisher logs the exception, and the next batch is handled
\* from its first tick again
C40_RaiseSkipsRestOfBatch ==
    [][\A e \in DOMAIN engines :
          HandlerCalled(e)
          => BatchHandled(engines[e], engines'[e],
                          on_tick(engines[e], published'[Len(published')][1], clock,
                                  "order_id"),
                          published'[Len(published')], RaiseLogged(e))]_vars

\* the engine raised on the first tick of the third batch, its fifth tick,
\* and never took the sixth; of the fourth batch it took both ticks
C40_Witness ==
    /\ engines # <<>>
    /\ Len(published) = 4
    /\ \E k \in 1..Len(_subs) : <<3, k>> \in raises /\ _subs[k] = Handler(1)
    /\ ~\E k \in 1..Len(_subs) : <<4, k>> \in raises
    /\ engines[1].prices = <<Val(published[2][1].last_price), Val(published[2][2].last_price),
                             Val(published[3][1].last_price), Val(published[4][1].last_price),
                             Val(published[4][2].last_price)>>

====
